---------------------------- MODULE Spec2Model ----------------------------
(***************************************************************************)
(* Projectory: workspace history, saved projects, save suggestions, the    *)
(* tag registry, project metadata and the By Tags tree, modelled from the  *)
(* TypeScript sources.                                                     *)
(*                                                                         *)
(* Conventions                                                             *)
(*  - a folder path is the sequence of its segments: path.basename is the  *)
(*    last segment;                                                        *)
(*  - the clock (Date.now()) counts whole days: DayMs is one clock unit;   *)
(*  - a vscode.Memento key is a variable holding the stored value; arrays  *)
(*    are sequences, a Record<string, T> is a sequence in key insertion    *)
(*    order (Object.values order);                                         *)
(*  - ret holds what the last operation returned.                          *)
(***************************************************************************)
EXTENDS Integers, Sequences, FiniteSets, TLC

VARIABLES
    now,               \* Date.now()
    fs,                \* the file system: what each folder is
    workspace,         \* vscode.workspace.workspaceFolders[0].uri.fsPath, or NoPath
    history,           \* globalState 'workspaceHistory'
    savedProjects,     \* globalState 'savedProjects'
    excludedPaths,     \* globalState 'excludedPaths'
    ignoredPaths,      \* globalState 'ignoredSuggestionPaths'
    postponed,         \* globalState 'postponedSuggestions'
    shownThisSession,  \* SuggestionService.shownThisSession
    notifications,     \* open notifications (showSuggestion calls awaiting the answer), per path
    projects,          \* ProjectsTreeProvider._projects
    recentFolders,     \* ProjectsTreeProvider._recentFolders
    ret,               \* the last operation and what it returned
    opens,             \* history variable: the clock readings of the recordOpen calls, per path
    shownCount,        \* history variable: notifications displayed, per path
    shownSinceReset,   \* history variable: notifications displayed since the last resetAll
    calls,             \* history variable: user decisions and file-system changes so far
    tags,              \* configuration 'projectory.tags': tag name -> priority
    metadata,          \* globalState 'projectMetadata': project path -> tagIds
    filterTagIds,      \* ProjectsTreeProvider._filterTagIds
    groupingDepth,     \* configuration 'projectory.groupingDepth'
    rootFolder,        \* configuration 'projectory.rootFolder', NoPath when not set
    timestamps,        \* the initializeProjectTimestamps call in progress, NoRun when none
    view               \* the element last expanded in the By Tags view and its children

vars == <<now, fs, workspace, history, savedProjects, excludedPaths, ignoredPaths,
          postponed, shownThisSession, notifications, projects, recentFolders, ret,
          opens, shownCount, shownSinceReset, calls,
          tags, metadata, filterTagIds, groupingDepth, rootFolder, timestamps, view>>

\* The configuration, the tag registry, the project metadata and the By Tags view
treeVars == <<tags, metadata, filterTagIds, groupingDepth, rootFolder, timestamps, view>>

\* The file system, the clock, the stores of the history and suggestion services
\* and the project list
storeVars == <<now, fs, workspace, history, savedProjects, excludedPaths, ignoredPaths,
               postponed, shownThisSession, notifications, projects, recentFolders, ret,
               opens, shownCount, shownSinceReset, calls>>

---------------------------------------------------------------------------
(* Bounds and program constants *)

\* At most MaxOpens recordOpen calls per path.
MaxOpens == 2
\* At most MaxShown notifications are displayed per path.
MaxShown == 2
\* At most MaxCalls save / ignore / postpone decisions and file-system changes in one run.
MaxCalls == 1

\* One day on the clock (24 * 60 * 60 * 1000 ms in the source).
DayMs == 1
POSTPONE_DURATION_DAYS == 7
MAX_HISTORY_ENTRIES == 100

Root == <<"r">>
Paths == {<<"r", "a">>, <<"r", "b">>}
NoPath == <<>>

\* The clock stops one day past the postponement horizon. The readings at which
\* operations run are the start, the horizon itself and the day after it.
MaxNow == (POSTPONE_DURATION_DAYS + 1) * DayMs
Instants == {t \in 0..MaxNow : t = 0 \/ t >= POSTPONE_DURATION_DAYS * DayMs}

FileKinds == {"missing", "dir", "repo", "worktree"}

\* SuggestionConfig values (configuration-service: enabled, minOpenCount, timePeriodDays)
SuggestionConfigs ==
    {[enabled |-> TRUE, minOpenCount |-> 2, timePeriodDays |-> POSTPONE_DURATION_DAYS],
     [enabled |-> TRUE, minOpenCount |-> 1, timePeriodDays |-> 1],
     [enabled |-> FALSE, minOpenCount |-> 1, timePeriodDays |-> POSTPONE_DURATION_DAYS]}

---------------------------------------------------------------------------
(* Sequences *)

Range(s) == {s[i] : i \in DOMAIN s}

Reverse(s) == [i \in 1..Len(s) |-> s[Len(s) + 1 - i]]

\* Array.prototype.filter
Filter(s, Keep(_)) == SelectSeq(s, Keep)

\* Array.prototype.sort is stable: `keyed` is a sequence of <<key, value>>; the
\* values come back by ascending key, equal keys in their original order.
\* pos[i] is the place of the i-th element in the result. (Concatenating <<>>
\* makes TLC hold keys and pos as tuples instead of re-evaluating them.)
StableSort(keyed) ==
    LET keys == [i \in DOMAIN keyed |-> keyed[i][1]] \o <<>>
        pos == [i \in DOMAIN keyed |->
                   1 + Cardinality({j \in DOMAIN keyed :
                                       \/ keys[j] < keys[i]
                                       \/ keys[j] = keys[i] /\ j < i})] \o <<>>
    IN  [k \in DOMAIN keyed |-> keyed[CHOOSE i \in DOMAIN keyed : pos[i] = k][2]]

\* path.basename
Basename(p) == p[Len(p)]

---------------------------------------------------------------------------
(* git-info-service / fs *)

\* fs.existsSync
ExistsSync(p) == fs[p] # "missing"

\* A linked worktree has .git as a file holding "gitdir: ..."
IsWorktreePath(p) == fs[p] = "worktree"

---------------------------------------------------------------------------
(* WorkspaceHistoryService *)

HasEntry(h, p) == \E i \in DOMAIN h : h[i].path = p

EntryOf(h, p) == h[CHOOSE i \in DOMAIN h : h[i].path = p]

\* delete history[p]
DeleteEntry(h, p) == SelectSeq(h, LAMBDA e : e.path # p)

GetHistorySorted ==
    StableSort([i \in DOMAIN history |-> <<0 - history[i].lastOpened, history[i]>>])

\* pruneHistory sorting by lastOpened ascending
PruneHistory_ascending(h) ==
    IF Len(h) <= MAX_HISTORY_ENTRIES
    THEN h
    ELSE LET entries == StableSort([i \in DOMAIN h |-> <<h[i].lastOpened, h[i]>>])
             toRemove == {entries[i].path : i \in (MAX_HISTORY_ENTRIES + 1)..Len(entries)}
         IN  SelectSeq(h, LAMBDA e : e.path \notin toRemove)

PruneHistory(h) ==
    IF Len(h) <= MAX_HISTORY_ENTRIES
    THEN h
    ELSE LET entries == StableSort([i \in DOMAIN h |-> <<0 - h[i].lastOpened, h[i]>>])
             toRemove == {entries[i].path : i \in (MAX_HISTORY_ENTRIES + 1)..Len(entries)}
         IN  SelectSeq(h, LAMBDA e : e.path \notin toRemove)

\* recordOpen without the worktree check
RecordOpenHistory_recordsWorktree(p) ==
    PruneHistory(
      IF HasEntry(history, p)
      THEN [i \in DOMAIN history |->
              IF history[i].path = p
              THEN [history[i] EXCEPT !.lastOpened = now, !.openCount = @ + 1]
              ELSE history[i]]
      ELSE Append(history,
             [path |-> p, lastOpened |-> now, openCount |-> 1, firstOpened |-> now]))

RecordOpenHistory(p) ==
    IF IsWorktreePath(p)
    THEN history
    ELSE PruneHistory(
           IF HasEntry(history, p)
           THEN [i \in DOMAIN history |->
                   IF history[i].path = p
                   THEN [history[i] EXCEPT !.lastOpened = now, !.openCount = @ + 1]
                   ELSE history[i]]
           ELSE Append(history,
                  [path |-> p, lastOpened |-> now, openCount |-> 1, firstOpened |-> now]))

\* getFrequentFolders without the filter
GetFrequentFolders_all(minOpenCount) == GetHistorySorted

GetFrequentFolders_strict(minOpenCount) ==
    SelectSeq(GetHistorySorted, LAMBDA e : e.openCount > minOpenCount)

GetFrequentFolders(minOpenCount) ==
    SelectSeq(GetHistorySorted, LAMBDA e : e.openCount >= minOpenCount)

---------------------------------------------------------------------------
(* SavedProjectsService *)

GetSavedProjects == SelectSeq(savedProjects, LAMBDA s : ExistsSync(s.path))

IsSaved(p) == \E i \in DOMAIN GetSavedProjects : GetSavedProjects[i].path = p

\* saveProject: the stored list and the excluded list it leaves
SaveProjectSaved(p) ==
    IF IsSaved(p)
    THEN savedProjects
    ELSE Append(GetSavedProjects, [name |-> Basename(p), path |-> p, savedAt |-> now])

SaveProjectExcluded(p) ==
    IF IsSaved(p)
    THEN excludedPaths
    ELSE SelectSeq(excludedPaths, LAMBDA x : x # p)

---------------------------------------------------------------------------
(* SuggestionService *)

IgnorePathList(p) ==
    IF p \in Range(ignoredPaths) THEN ignoredPaths ELSE Append(ignoredPaths, p)

PostponeSuggestionList(p) ==
    Append(SelectSeq(postponed, LAMBDA s : s.path # p), [path |-> p, postponedAt |-> now])

UnpostponePathList(l, p) == SelectSeq(l, LAMBDA s : s.path # p)

IsPostponeExpired_early(s) ==
    now >= s.postponedAt + POSTPONE_DURATION_DAYS * DayMs

IsPostponeExpired(s) ==
    now > s.postponedAt + POSTPONE_DURATION_DAYS * DayMs

CleanupExpiredPostponements ==
    LET stillValid == SelectSeq(postponed, LAMBDA s : ~IsPostponeExpired(s))
    IN  IF Len(stillValid) # Len(postponed) THEN stillValid ELSE postponed

SuggestibleFolders_noPeriod(config, post) ==
    IF ~config.enabled
    THEN <<>>
    ELSE LET postponedPaths ==
                 {post[i].path : i \in {j \in DOMAIN post : ~IsPostponeExpired(post[j])}}
             savedPaths == {GetSavedProjects[i].path : i \in DOMAIN GetSavedProjects}
         IN  SelectSeq(GetFrequentFolders(config.minOpenCount),
                 LAMBDA e :
                     /\ e.path \notin savedPaths
                     /\ e.path \notin Range(ignoredPaths)
                     /\ e.path \notin postponedPaths
                     /\ ExistsSync(e.path)
                     /\ ~IsWorktreePath(e.path))

\* getSuggestibleFolders after the cleanup, reading the stored list `post`
SuggestibleFolders(config, post) ==
    IF ~config.enabled
    THEN <<>>
    ELSE LET periodStart == now - config.timePeriodDays * DayMs
             postponedPaths ==
                 {post[i].path : i \in {j \in DOMAIN post : ~IsPostponeExpired(post[j])}}
             savedPaths == {GetSavedProjects[i].path : i \in DOMAIN GetSavedProjects}
         IN  SelectSeq(GetFrequentFolders(config.minOpenCount),
                 LAMBDA e :
                     /\ e.path \notin savedPaths
                     /\ e.path \notin Range(ignoredPaths)
                     /\ e.path \notin postponedPaths
                     /\ ~(e.lastOpened < periodStart)
                     /\ ExistsSync(e.path)
                     /\ ~IsWorktreePath(e.path))

---------------------------------------------------------------------------
(* Operations *)

NoCall == [op |-> "none"]

Tick ==
    /\ UNCHANGED treeVars
    /\ \E t \in Instants : t > now /\ now' = t
    /\ ret' = NoCall
    /\ UNCHANGED <<fs, workspace, history, savedProjects, excludedPaths, ignoredPaths,
                   postponed, shownThisSession, notifications, projects, recentFolders,
                   opens, shownCount, shownSinceReset, calls>>

\* The user deletes a folder, or replaces it by a linked worktree of the same path.
FsChange(p, kind) ==
    /\ UNCHANGED treeVars
    /\ calls < MaxCalls
    /\ calls' = calls + 1
    /\ fs[p] \in {"dir", "repo"}
    /\ kind \in {"missing", "worktree"}
    /\ fs' = [fs EXCEPT ![p] = kind]
    /\ ret' = NoCall
    /\ UNCHANGED <<now, workspace, history, savedProjects, excludedPaths, ignoredPaths,
                   postponed, shownThisSession, notifications, projects, recentFolders,
                   opens, shownCount, shownSinceReset>>

RecordOpen(p) ==
    /\ UNCHANGED treeVars
    /\ Len(opens[p]) < MaxOpens
    /\ history' = RecordOpenHistory(p)
    /\ opens' = [opens EXCEPT ![p] = Append(@, now)]
    /\ ret' = NoCall
    /\ UNCHANGED <<now, fs, workspace, savedProjects, excludedPaths, ignoredPaths,
                   postponed, shownThisSession, notifications, projects, recentFolders,
                   shownCount, shownSinceReset, calls>>

SaveProject(p) ==
    /\ UNCHANGED treeVars
    /\ calls < MaxCalls
    /\ calls' = calls + 1
    /\ savedProjects' = SaveProjectSaved(p)
    /\ excludedPaths' = SaveProjectExcluded(p)
    /\ ret' = NoCall
    /\ UNCHANGED <<now, fs, workspace, history, ignoredPaths, postponed,
                   shownThisSession, notifications, projects, recentFolders,
                   opens, shownCount, shownSinceReset>>

IgnorePath(p) ==
    /\ UNCHANGED treeVars
    /\ calls < MaxCalls
    /\ calls' = calls + 1
    /\ ignoredPaths' = IgnorePathList(p)
    /\ ret' = NoCall
    /\ UNCHANGED <<now, fs, workspace, history, savedProjects, excludedPaths, postponed,
                   shownThisSession, notifications, projects, recentFolders,
                   opens, shownCount, shownSinceReset>>

PostponeSuggestion(p) ==
    /\ UNCHANGED treeVars
    /\ calls < MaxCalls
    /\ calls' = calls + 1
    /\ postponed' = PostponeSuggestionList(p)
    /\ ret' = NoCall
    /\ UNCHANGED <<now, fs, workspace, history, savedProjects, excludedPaths, ignoredPaths,
                   shownThisSession, notifications, projects, recentFolders,
                   opens, shownCount, shownSinceReset>>

GetSuggestibleFolders(config) ==
    /\ UNCHANGED treeVars
    /\ postponed' = IF config.enabled THEN CleanupExpiredPostponements ELSE postponed
    /\ ret' = [op |-> "getSuggestibleFolders",
               config |-> config,
               result |-> SuggestibleFolders(config, postponed'),
               cleaned |-> {postponed[i].path : i \in DOMAIN postponed} \
                           {postponed'[i].path : i \in DOMAIN postponed'}]
    /\ UNCHANGED <<now, fs, workspace, history, savedProjects, excludedPaths, ignoredPaths,
                   shownThisSession, notifications, projects, recentFolders,
                   opens, shownCount, shownSinceReset, calls>>

---------------------------------------------------------------------------
(* The state after construction *)

\* An empty globalState, nothing shown, no project loaded
EmptyState ==
    /\ history = <<>>
    /\ savedProjects = <<>>
    /\ excludedPaths = <<>>
    /\ ignoredPaths = <<>>
    /\ postponed = <<>>
    /\ shownThisSession = {}
    /\ notifications = [p \in Paths |-> 0]
    /\ projects = <<>>
    /\ recentFolders = <<>>
    /\ ret = NoCall
    /\ opens = [p \in Paths |-> <<>>]
    /\ shownCount = [p \in Paths |-> 0]
    /\ shownSinceReset = [p \in Paths |-> 0]
    /\ calls = 0

TagNames == {"x", "y", "z"}

\* config[name] === undefined
Undefined == 0 - 1

\* No initializeProjectTimestamps call in progress
NoRun == [running |-> FALSE, toInit |-> <<>>, next |-> 1, batch |-> {}, initialized |-> 0,
          created |-> {}]

\* No tag is defined and no project is tagged; the By Tags view is not open.
\* The root folder is configured.
NoTags ==
    /\ tags = [n \in TagNames |-> Undefined]
    /\ metadata = [p \in Paths |-> <<>>]
    /\ filterTagIds = <<>>
    /\ groupingDepth = 1
    /\ rootFolder = Root
    /\ timestamps = NoRun
    /\ view = [parent |-> [kind |-> "none"], items |-> <<>>]

---------------------------------------------------------------------------
(* The suggestion engine: history, saved, ignored and postponed lists *)

InitSuggest ==
    /\ now = 0
    /\ fs = [p \in Paths |-> "dir"]
    /\ workspace = NoPath
    /\ EmptyState
    /\ NoTags

NextSuggest ==
    \/ Tick
    \/ \E p \in Paths, kind \in FileKinds : FsChange(p, kind)
    \/ \E p \in Paths : RecordOpen(p)
    \/ \E p \in Paths : SaveProject(p)
    \/ \E p \in Paths : IgnorePath(p)
    \/ \E p \in Paths : PostponeSuggestion(p)
    \/ \E config \in SuggestionConfigs : GetSuggestibleFolders(config)

SpecSuggest == InitSuggest /\ [][NextSuggest]_vars

---------------------------------------------------------------------------
(* Claims about getSuggestibleFolders, checked under SpecSuggest *)

ReturnedSuggestions == ret.op = "getSuggestibleFolders" /\ ret.config.enabled

PathsOf(s) == {s[i].path : i \in DOMAIN s}

\* The seven conditions of eligibility, stated on the stored state.
Eligible(e, config) ==
    /\ e.openCount >= config.minOpenCount
    /\ e.path \notin PathsOf(savedProjects)
    /\ e.path \notin Range(ignoredPaths)
    /\ \A i \in DOMAIN postponed :
          postponed[i].path = e.path
              => now > postponed[i].postponedAt + POSTPONE_DURATION_DAYS * DayMs
    /\ e.lastOpened >= now - config.timePeriodDays * DayMs
    /\ fs[e.path] # "missing"
    /\ fs[e.path] # "worktree"

\* C1: with suggestions enabled, getSuggestibleFolders returns exactly the history
\* entries that are opened often enough, not saved, not ignored, not under an
\* unexpired postponement, opened within the time period, existing and not a linked
\* worktree; each once, ordered by lastOpened, most recent first.
C1_ExactlyEligibleSorted ==
    ReturnedSuggestions =>
        /\ Range(ret.result) = {e \in Range(history) : Eligible(e, ret.config)}
        /\ Cardinality(Range(ret.result)) = Len(ret.result)
        /\ \A i, j \in DOMAIN ret.result :
              i < j => ret.result[i].lastOpened >= ret.result[j].lastOpened

\* Two folders are returned, the one entered later in the history first, while a
\* third condition (a postponement, a saved or ignored path, a changed folder) is
\* in play or not.
C1_Witness ==
    /\ ReturnedSuggestions
    /\ Len(ret.result) = 2
    /\ Len(history) = 2
    /\ ret.result[1].path = history[2].path
    /\ ret.result[1].lastOpened > ret.result[2].lastOpened

OpensInWindow(p, config) ==
    {i \in DOMAIN opens[p] : opens[p][i] >= now - config.timePeriodDays * DayMs}

\* C2 as stated: every returned entry was opened (recordOpen) at least minOpenCount
\* times during the last timePeriodDays days.
C2_OpensWithinPeriod ==
    ReturnedSuggestions =>
        \A i \in DOMAIN ret.result :
            Cardinality(OpensInWindow(ret.result[i].path, ret.config))
                >= ret.config.minOpenCount

\* C2 as amended: every returned entry was opened at least minOpenCount times at
\* any time (its openCount, never more than the recordOpen calls made), and its
\* lastOpened lies within the last timePeriodDays days.
C2_OpensEverAndRecent ==
    ReturnedSuggestions =>
        \A i \in DOMAIN ret.result :
            LET e == ret.result[i]
            IN  /\ e.openCount >= ret.config.minOpenCount
                /\ Len(opens[e.path]) >= e.openCount
                /\ e.lastOpened >= now - ret.config.timePeriodDays * DayMs

\* A folder is returned on the strength of an open older than the time period.
C2_Witness ==
    /\ ReturnedSuggestions
    /\ \E i \in DOMAIN ret.result :
          Cardinality(OpensInWindow(ret.result[i].path, ret.config))
              < ret.config.minOpenCount

Unexpired(s) == now <= s.postponedAt + POSTPONE_DURATION_DAYS * DayMs

---------------------------------------------------------------------------
(* project-scanner / ProjectsTreeProvider.loadProjects *)

\* String.prototype.localeCompare on the folder and tag names in use
Alphabet == <<"a", "b", "node_modules", "r", "x", "y", "z">>

NameRank(name) == CHOOSE i \in DOMAIN Alphabet : Alphabet[i] = name

\* part.endsWith('.worktrees') and part.replace('.worktrees', '')
WorktreesBase(part) ==
    CASE part = "a.worktrees" -> "a" [] part = "b.worktrees" -> "b" [] OTHER -> ""

\* The main repository a linked worktree's "gitdir:" file points to: each of the
\* two folders is, when it is a linked worktree, a worktree of the other.
MainRepoOf(p) == CHOOSE q \in Paths : q # p

SeqOfSet(S) ==
    LET f[T \in SUBSET S] ==
            IF T = {} THEN <<>>
            ELSE LET x == CHOOSE y \in T : \A z \in T : NameRank(Basename(y)) <= NameRank(Basename(z))
                 IN  <<x>> \o f[T \ {x}]
    IN  f[S]

\* git worktree list: the main worktree, then the linked ones
GetWorktrees(repo) ==
    <<[path |-> repo, isMain |-> TRUE]>> \o
    [i \in DOMAIN SeqOfSet({q \in Paths : fs[q] = "worktree" /\ MainRepoOf(q) = repo}) |->
        [path |-> SeqOfSet({q \in Paths : fs[q] = "worktree" /\ MainRepoOf(q) = repo})[i],
         isMain |-> FALSE]]

CreateProjectWithWorktrees(p) ==
    LET allWorktrees == GetWorktrees(p)
        linked == SelectSeq(allWorktrees, LAMBDA w : ~w.isMain)
    IN  [name |-> Basename(p), path |-> p, isGitRepo |-> TRUE,
         worktrees |-> IF Len(linked) > 0 THEN allWorktrees ELSE <<>>]

\* configuration-service defaults of excludePatterns and maxScanDepth
DefaultExcludePatterns == <<"node_modules", ".git">>
DefaultMaxScanDepth == 2

\* The characters of the folder names and patterns that are matched by a
\* regular expression (one-letter names stand for themselves)
Chars(name) ==
    CASE name = "node_modules" ->
             <<"n", "o", "d", "e", "_", "m", "o", "d", "u", "l", "e", "s">>
      [] name = "n*" -> <<"n", "*">>
      [] name = "*s" -> <<"*", "s">>
      [] OTHER -> <<name>>

\* pattern.includes('*')
IncludesStar(pattern) == \E i \in DOMAIN Chars(pattern) : Chars(pattern)[i] = "*"

\* new RegExp('^' + pattern.replace(/\*/g, '.*') + '$').test(name), on the
\* characters: every '*' matches any run of characters, a letter itself
RECURSIVE RegexTest(_, _)
RegexTest(pat, str) ==
    IF pat = <<>>
    THEN str = <<>>
    ELSE IF Head(pat) = "*"
    THEN RegexTest(Tail(pat), str) \/ (str # <<>> /\ RegexTest(pat, Tail(str)))
    ELSE str # <<>> /\ Head(str) = Head(pat) /\ RegexTest(Tail(pat), Tail(str))

ShouldExclude(name, patterns) ==
    \E i \in DOMAIN patterns :
        IF IncludesStar(patterns[i])
        THEN RegexTest(Chars(patterns[i]), Chars(name))
        ELSE name = patterns[i]

\* What a folder is: the root folder is a plain folder unless fs tells, any
\* other folder that fs does not hold does not exist
KindOf(p) ==
    IF p \in DOMAIN fs THEN fs[p] ELSE IF p = Root THEN "dir" ELSE "missing"

\* readDirectory: the subfolders (FileType.Directory) of a folder
Subfolders(uri) ==
    {p \in DOMAIN fs : Len(p) = Len(uri) + 1 /\ SubSeq(p, 1, Len(uri)) = uri
                           /\ fs[p] \in {"dir", "repo", "worktree"}}

\* scanDirectory: the projects it pushes, in the order of the walk
RECURSIVE ScanDirectory(_, _, _, _)
ScanDirectory(uri, excludePatterns, maxDepth, currentDepth) ==
    IF currentDepth > maxDepth \/ KindOf(uri) \in {"missing", "worktree"}
    THEN <<>>
    ELSE IF KindOf(uri) = "repo"
    THEN <<CreateProjectWithWorktrees(uri)>>
    ELSE LET entries == SeqOfSet({p \in Subfolders(uri) :
                                     ~ShouldExclude(Basename(p), excludePatterns)})
             pushed[i \in 0..Len(entries)] ==
                 IF i = 0 THEN <<>>
                 ELSE pushed[i - 1] \o
                      ScanDirectory(entries[i], excludePatterns, maxDepth, currentDepth + 1)
         IN  pushed[Len(entries)]

\* scanProjects with a one level deeper walk
ScanProjectsIn_deeper(root, excludePatterns, maxScanDepth) ==
    IF root = NoPath
    THEN <<>>
    ELSE LET found == ScanDirectory(root, excludePatterns, maxScanDepth + 1, 0)
         IN  StableSort([i \in DOMAIN found |-> <<NameRank(found[i].name), found[i]>>])

\* scanProjects(config): the main repositories under the root folder, sorted by name
ScanProjectsIn(root, excludePatterns, maxScanDepth) ==
    IF root = NoPath
    THEN <<>>
    ELSE LET found == ScanDirectory(root, excludePatterns, maxScanDepth, 0)
         IN  StableSort([i \in DOMAIN found |-> <<NameRank(found[i].name), found[i]>>])

\* scanProjects(getConfig()) under the default patterns and depth
ScanProjectsAt(root) == ScanProjectsIn(root, DefaultExcludePatterns, DefaultMaxScanDepth)

ScanProjects == ScanProjectsAt(rootFolder)

\* toProjects over the stored list `saved`
ToProjects(saved) ==
    LET existing == SelectSeq(saved, LAMBDA s : ExistsSync(s.path))
    IN  [i \in DOMAIN existing |->
            [name |-> existing[i].name, path |-> existing[i].path,
             isGitRepo |-> FALSE, worktrees |-> <<>>]]

\* loadProjects listing every saved project
LoadedProjectsAt_allSaved(root, saved, excluded) ==
    SelectSeq(ScanProjectsAt(root), LAMBDA p : p.path \notin Range(excluded))
        \o ToProjects(saved)

\* loadProjects over the root folder `root` and the stored lists: scanned
\* projects not excluded, then saved projects not among them
LoadedProjectsAt(root, saved, excluded) ==
    LET filteredScanned ==
            SelectSeq(ScanProjectsAt(root), LAMBDA p : p.path \notin Range(excluded))
        scannedPaths == {filteredScanned[i].path : i \in DOMAIN filteredScanned}
    IN  filteredScanned \o SelectSeq(ToProjects(saved), LAMBDA p : p.path \notin scannedPaths)

LoadedProjects(saved, excluded) == LoadedProjectsAt(rootFolder, saved, excluded)

IsPrefix(s, t) == Len(s) < Len(t) /\ SubSeq(t, 1, Len(s)) = s

\* getRecentFolders without the subfolder check
GetRecentFolders_noSubfolder(excludeProjects) ==
    LET projectPaths == {excludeProjects[i].path : i \in DOMAIN excludeProjects}
        projectNames == {excludeProjects[i].name : i \in DOMAIN excludeProjects}
        kept == SelectSeq(GetHistorySorted,
                    LAMBDA e :
                        /\ ExistsSync(e.path)
                        /\ e.path \notin projectPaths
                        /\ ~\E i \in DOMAIN e.path : WorktreesBase(e.path[i]) \in projectNames)
    IN  [i \in DOMAIN kept |->
            [name |-> Basename(kept[i].path), path |-> kept[i].path,
             lastOpened |-> kept[i].lastOpened, openCount |-> kept[i].openCount]]

\* getRecentFolders: the folders returned
GetRecentFolders(excludeProjects) ==
    LET projectPaths == {excludeProjects[i].path : i \in DOMAIN excludeProjects}
        projectNames == {excludeProjects[i].name : i \in DOMAIN excludeProjects}
        kept == SelectSeq(GetHistorySorted,
                    LAMBDA e :
                        /\ ExistsSync(e.path)
                        /\ e.path \notin projectPaths
                        /\ ~\E q \in projectPaths : IsPrefix(q, e.path)
                        /\ ~\E i \in DOMAIN e.path : WorktreesBase(e.path[i]) \in projectNames)
    IN  [i \in DOMAIN kept |->
            [name |-> Basename(kept[i].path), path |-> kept[i].path,
             lastOpened |-> kept[i].lastOpened, openCount |-> kept[i].openCount]]

\* getRecentFolders: the history it leaves (entries of missing folders removed)
GetRecentFoldersHistory == SelectSeq(history, LAMBDA e : ExistsSync(e.path))

\* initializeProjectTimestamps over history h, every commit date read as `commit`
InitializeProjectTimestamps(projs, h, commit) ==
    LET toInit == SelectSeq(projs, LAMBDA p : ~HasEntry(h, p.path))
    IN  h \o [i \in DOMAIN toInit |->
                [path |-> toInit[i].path, lastOpened |-> commit, openCount |-> 0,
                 firstOpened |-> commit]]

\* The project paths handed to the suggestion service (extension.ts: every
\* project's path and the paths of its worktrees)
ProjectPaths ==
    {projects[i].path : i \in DOMAIN projects} \cup
    UNION {{projects[i].worktrees[j].path : j \in DOMAIN projects[i].worktrees} :
              i \in DOMAIN projects}

---------------------------------------------------------------------------
(* Operations of a session: the tree provider and the suggestion notification *)

NoEntry == [path |-> NoPath, lastOpened |-> 0, openCount |-> 0, firstOpened |-> 0]

Choices == {"Save", "Later", "Ignore", "dismissed"}

\* refresh / loadProjects reading the stored lists `saved` and `excluded`: the
\* project list, the recent folders, the history cleanup and the timestamps of
\* the projects new to the history.
RefreshProjectsAt(root, saved, excluded, commit) ==
    LET loaded == LoadedProjectsAt(root, saved, excluded)
    IN  /\ projects' = loaded
        /\ recentFolders' = GetRecentFolders(loaded)
        /\ history' = InitializeProjectTimestamps(loaded, GetRecentFoldersHistory, commit)

RefreshProjects(saved, excluded, commit) ==
    RefreshProjectsAt(rootFolder, saved, excluded, commit)

Refresh(commit) ==
    /\ UNCHANGED treeVars
    /\ RefreshProjects(savedProjects, excludedPaths, commit)
    /\ UNCHANGED <<savedProjects, excludedPaths, fs>>
    /\ ret' = [op |-> "refreshProjects"]
    /\ UNCHANGED <<now, workspace, ignoredPaths, postponed, shownThisSession,
                   notifications, opens, shownCount, shownSinceReset, calls>>

CheckCurrentWorkspace(config) ==
    /\ UNCHANGED treeVars
    /\ postponed' = IF workspace # NoPath /\ config.enabled
                    THEN CleanupExpiredPostponements ELSE postponed
    /\ ret' = [op |-> "checkCurrentWorkspace",
               result |->
                   IF workspace = NoPath
                   THEN NoEntry
                   ELSE LET found == SelectSeq(SuggestibleFolders(config, postponed'),
                                               LAMBDA e : e.path = workspace)
                        IN  IF Len(found) > 0 THEN found[1] ELSE NoEntry]
    /\ UNCHANGED <<now, fs, workspace, history, savedProjects, excludedPaths, ignoredPaths,
                   shownThisSession, notifications, projects, recentFolders,
                   opens, shownCount, shownSinceReset, calls>>

\* showSuggestion forgetting to mark the path as shown
ShowSuggestion_noMark(entry) ==
    /\ UNCHANGED treeVars
    /\ shownCount[entry.path] < MaxShown
    /\ notifications' = [notifications EXCEPT ![entry.path] = @ + 1]
    /\ shownCount' = [shownCount EXCEPT ![entry.path] = @ + 1]
    /\ shownSinceReset' = [shownSinceReset EXCEPT ![entry.path] = @ + 1]
    /\ ret' = [op |-> "showSuggestion", path |-> entry.path, shown |-> TRUE]
    /\ UNCHANGED <<now, fs, workspace, history, savedProjects, excludedPaths, ignoredPaths,
                   postponed, shownThisSession, projects, recentFolders, opens, calls>>

\* showSuggestion up to its await: the notification opens unless the path was
\* shown this session.
ShowSuggestion(entry) ==
    /\ UNCHANGED treeVars
    /\ shownCount[entry.path] < MaxShown
    /\ IF entry.path \in shownThisSession
       THEN /\ ret' = [op |-> "showSuggestion", path |-> entry.path, shown |-> FALSE]
            /\ UNCHANGED <<shownThisSession, notifications, shownCount, shownSinceReset>>
       ELSE /\ shownThisSession' = shownThisSession \cup {entry.path}
            /\ notifications' = [notifications EXCEPT ![entry.path] = @ + 1]
            /\ shownCount' = [shownCount EXCEPT ![entry.path] = @ + 1]
            /\ shownSinceReset' = [shownSinceReset EXCEPT ![entry.path] = @ + 1]
            /\ ret' = [op |-> "showSuggestion", path |-> entry.path, shown |-> TRUE]
    /\ UNCHANGED <<now, fs, workspace, history, savedProjects, excludedPaths, ignoredPaths,
                   postponed, projects, recentFolders, opens, calls>>

\* The answer to 'Save' leaving the postponed entry in place
AnswerSuggestion_keepPostponed(p, choice, commit) ==
    /\ UNCHANGED treeVars
    /\ notifications[p] > 0
    /\ notifications' = [notifications EXCEPT ![p] = @ - 1]
    /\ ret' = [op |-> "answer", path |-> p, choice |-> choice]
    /\ CASE choice = "Save" ->
              /\ savedProjects' = SaveProjectSaved(p)
              /\ excludedPaths' = SaveProjectExcluded(p)
              /\ UNCHANGED <<fs, postponed, ignoredPaths>>
              /\ RefreshProjects(SaveProjectSaved(p), SaveProjectExcluded(p), commit)
         [] choice = "Later" ->
              /\ postponed' = PostponeSuggestionList(p)
              /\ UNCHANGED <<fs, history, savedProjects, excludedPaths, ignoredPaths,
                             projects, recentFolders>>
         [] choice = "Ignore" ->
              /\ ignoredPaths' = IgnorePathList(p)
              /\ UNCHANGED <<fs, history, savedProjects, excludedPaths, postponed,
                             projects, recentFolders>>
         [] OTHER ->
              UNCHANGED <<fs, history, savedProjects, excludedPaths, ignoredPaths,
                          postponed, projects, recentFolders>>
    /\ UNCHANGED <<now, workspace, shownThisSession, opens, shownCount,
                   shownSinceReset, calls>>

\* showSuggestion after its await: the user's choice for an open notification
\* of p ("dismissed" is showInformationMessage resolving to undefined)
AnswerSuggestion(p, choice, commit) ==
    /\ UNCHANGED treeVars
    /\ notifications[p] > 0
    /\ notifications' = [notifications EXCEPT ![p] = @ - 1]
    /\ ret' = [op |-> "answer", path |-> p, choice |-> choice]
    /\ CASE choice = "Save" ->
              /\ savedProjects' = SaveProjectSaved(p)
              /\ excludedPaths' = SaveProjectExcluded(p)
              /\ postponed' = UnpostponePathList(postponed, p)
              /\ UNCHANGED <<fs, ignoredPaths>>
              /\ RefreshProjects(SaveProjectSaved(p), SaveProjectExcluded(p), commit)
         [] choice = "Later" ->
              /\ postponed' = PostponeSuggestionList(p)
              /\ UNCHANGED <<fs, history, savedProjects, excludedPaths, ignoredPaths,
                             projects, recentFolders>>
         [] choice = "Ignore" ->
              /\ ignoredPaths' = IgnorePathList(p)
              /\ UNCHANGED <<fs, history, savedProjects, excludedPaths, postponed,
                             projects, recentFolders>>
         [] OTHER ->
              UNCHANGED <<fs, history, savedProjects, excludedPaths, ignoredPaths,
                          postponed, projects, recentFolders>>
    /\ UNCHANGED <<now, workspace, shownThisSession, opens, shownCount,
                   shownSinceReset, calls>>

\* SuggestionService.resetAll
ResetAll ==
    /\ UNCHANGED treeVars
    /\ ignoredPaths' = <<>>
    /\ postponed' = <<>>
    /\ shownThisSession' = {}
    /\ shownSinceReset' = [p \in Paths |-> 0]
    /\ ret' = NoCall
    /\ UNCHANGED <<now, fs, workspace, history, savedProjects, excludedPaths,
                   notifications, projects, recentFolders, opens, shownCount, calls>>

\* The commit dates git log reports: none is available (read as the epoch)
CommitDates == {0}

\* Each folder as a session finds it
InitKinds == {"dir", "repo", "worktree"}

\* The folders a suggestion is made for exist and are no linked worktrees
SuggestibleKinds == {"dir", "repo"}

\* The entry checkCurrentWorkspace hands to showSuggestion for folder p
EntryFor(p) == [path |-> p, lastOpened |-> now, openCount |-> 1, firstOpened |-> now]

---------------------------------------------------------------------------
(* The current workspace against the project list *)

InitCheck ==
    /\ now = 0
    /\ fs \in [Paths -> InitKinds]
    /\ workspace \in Paths \cup {NoPath}
    /\ EmptyState
    /\ NoTags

NextCheck ==
    \/ \E p \in Paths : RecordOpen(p)
    \/ \E p \in Paths : SaveProject(p)
    \/ \E commit \in CommitDates : Refresh(commit)
    \/ \E config \in SuggestionConfigs : CheckCurrentWorkspace(config)

SpecCheck == InitCheck /\ [][NextCheck]_vars

---------------------------------------------------------------------------
(* The suggestion notification within a session. A session is short against the
   days the clock counts: it runs at one instant. *)

InitShow ==
    /\ now \in Instants
    /\ fs \in [Paths -> SuggestibleKinds]
    /\ workspace \in Paths
    /\ EmptyState
    /\ NoTags

NextShow ==
    \/ \E p \in Paths : ShowSuggestion(EntryFor(p))
    \/ \E p \in Paths, choice \in Choices, commit \in CommitDates :
          AnswerSuggestion(p, choice, commit)
    \/ ResetAll

SpecShow == InitShow /\ [][NextShow]_vars

---------------------------------------------------------------------------
(* Claims about checkCurrentWorkspace (SpecCheck) and showSuggestion (SpecShow) *)

\* C3: checkCurrentWorkspace never returns a path that is in the current project
\* list (a scanned repository, one of its worktrees, or a saved project).
C3_NeverKnownProject ==
    (ret.op = "checkCurrentWorkspace" /\ ret.result # NoEntry)
        => ret.result.path \notin ProjectPaths

EntriesFor(l, p) == {i \in DOMAIN l : l[i].path = p}

OthersOf(l, p) == SelectSeq(l, LAMBDA s : s.path # p)

\* C5: the answer to the notification for p is applied and nothing else. Save: p
\* is in the saved list once, no postponed entry for p is left, the other saved
\* and postponed entries and the ignored list are as before. Later: exactly one
\* postponed entry for p, stamped with the current time, the rest as before.
\* Ignore: p is in the ignored list, once, the rest as before. Dismissed: saved,
\* ignored, postponed (and excluded, history, project list) are unchanged.
C5_AnswerApplied ==
    [][ret'.op = "answer" =>
          LET p == ret'.path
              choice == ret'.choice
          IN  /\ choice = "Save" =>
                    /\ Cardinality(EntriesFor(savedProjects', p)) = 1
                    /\ OthersOf(savedProjects', p) = OthersOf(savedProjects, p)
                    /\ EntriesFor(postponed', p) = {}
                    /\ OthersOf(postponed', p) = OthersOf(postponed, p)
                    /\ ignoredPaths' = ignoredPaths
              /\ choice = "Later" =>
                    /\ Cardinality(EntriesFor(postponed', p)) = 1
                    /\ \A i \in EntriesFor(postponed', p) : postponed'[i].postponedAt = now
                    /\ OthersOf(postponed', p) = OthersOf(postponed, p)
                    /\ savedProjects' = savedProjects
                    /\ ignoredPaths' = ignoredPaths
              /\ choice = "Ignore" =>
                    /\ Cardinality({i \in DOMAIN ignoredPaths' : ignoredPaths'[i] = p}) = 1
                    /\ SelectSeq(ignoredPaths', LAMBDA q : q # p)
                           = SelectSeq(ignoredPaths, LAMBDA q : q # p)
                    /\ savedProjects' = savedProjects
                    /\ postponed' = postponed
              /\ choice = "dismissed" =>
                    UNCHANGED <<savedProjects, ignoredPaths, postponed, excludedPaths,
                                history, projects>>
    ]_vars

\* 'Later' has just been answered for a folder at a later instant than the start,
\* next to another folder's postponement, after a folder was saved and one ignored.
C5_Witness ==
    /\ ret.op = "answer"
    /\ ret.choice = "Later"
    /\ now > 0
    /\ Len(postponed) = 2
    /\ postponed[2] = [path |-> ret.path, postponedAt |-> now]
    /\ savedProjects # <<>>
    /\ ignoredPaths # <<>>

\* C6 as stated: within a session the notification for a path is shown at most once.
C6_ShownOncePerSession ==
    \A p \in Paths : shownCount[p] <= 1

\* C6 as amended: between two resetAll calls the notification for a path is shown
\* at most once, and a showSuggestion call for a path already shown since the last
\* resetAll shows nothing and changes nothing, also while the first notification
\* is still open.
C6_ShownOncePerReset ==
    /\ [](\A p \in Paths : shownSinceReset[p] <= 1)
    /\ [][(ret'.op = "showSuggestion" /\ shownSinceReset[ret'.path] > 0) =>
             /\ ~ret'.shown
             /\ UNCHANGED <<notifications, shownCount, shownThisSession, savedProjects,
                            excludedPaths, ignoredPaths, postponed, history>>
       ]_vars

\* A second call for a path returned without showing while the first
\* notification was still open.
C6_Witness ==
    /\ ret.op = "showSuggestion"
    /\ ~ret.shown
    /\ notifications[ret.path] = 1
    /\ shownSinceReset[ret.path] = 1

---------------------------------------------------------------------------
(* TagService and ProjectMetadataService: reads *)

\* Names sorted with localeCompare
SortedNames(S) ==
    LET f[T \in SUBSET S] ==
            IF T = {} THEN <<>>
            ELSE LET x == CHOOSE y \in T : \A z \in T : NameRank(y) <= NameRank(z)
                 IN  <<x>> \o f[T \ {x}]
    IN  f[S]

\* getTagsByPriority: the tags of one priority level, sorted by name
GetTagsByPriority(priority) ==
    LET names == SortedNames({n \in TagNames : tags[n] # Undefined /\ tags[n] = priority})
    IN  [i \in DOMAIN names |-> [name |-> names[i], priority |-> priority]]

\* Array.prototype.includes
Includes(s, x) == \E i \in DOMAIN s : s[i] = x

\* ProjectMetadataService.getTags
GetTags(p) == metadata[p]

\* ProjectMetadataService.getUntaggedProjects
GetUntaggedPaths(allProjectPaths) ==
    SelectSeq(allProjectPaths, LAMBDA p : Len(metadata[p]) = 0)

---------------------------------------------------------------------------
(* ProjectsTreeProvider: the By Tags view *)

SortOrders == {"recent", "alphabetical"}

SortDirections == {"asc", "desc"}

LastOpenedOf(p) == IF HasEntry(history, p) THEN EntryOf(history, p).lastOpened ELSE 0

\* WorkspaceHistoryService.sortProjects
SortProjects(projs, sortOrder, sortDirection) ==
    IF sortOrder = "alphabetical"
    THEN LET sorted == StableSort([i \in DOMAIN projs |-> <<NameRank(projs[i].name), projs[i]>>])
         IN  IF sortDirection = "desc" THEN Reverse(sorted) ELSE sorted
    ELSE LET sorted == StableSort([i \in DOMAIN projs |->
                                      <<0 - LastOpenedOf(projs[i].path), projs[i]>>])
         IN  IF sortDirection = "asc" THEN Reverse(sorted) ELSE sorted

GetProjectsWithAllTags(tagIds) ==
    SelectSeq(projects,
        LAMBDA pr : \A i \in DOMAIN tagIds : Includes(GetTags(pr.path), tagIds[i]))

\* The count of projects under a tag path, the filter forgotten
GetFilteredProjectCountUnderTag_noFilter(tagPath, filterIds) ==
    Len(GetProjectsWithAllTags(tagPath))

GetFilteredProjectCountUnderTag(tagPath, filterIds) ==
    Len(SelectSeq(projects,
            LAMBDA pr :
                /\ \A i \in DOMAIN tagPath : Includes(GetTags(pr.path), tagPath[i])
                /\ \E j \in DOMAIN filterIds : Includes(GetTags(pr.path), filterIds[j])))

\* The filter without '__untagged__'
FilterTagNames == SelectSeq(filterTagIds, LAMBDA name : name # "__untagged__")

TagTreeItem(tag, tagPath, projectCount, hasChildren) ==
    [kind |-> "tag", tag |-> tag, tagPath |-> tagPath, count |-> projectCount,
     hasChildren |-> hasChildren]

UntaggedTreeItem(projectCount) == [kind |-> "untagged", count |-> projectCount]

ProjectTreeItem(project, tagDescription) ==
    [kind |-> "project", path |-> project.path, isSaved |-> IsSaved(project.path),
     isCurrent |-> (project.path = workspace), tagDescription |-> tagDescription]

RootElement == [kind |-> "root"]

\* getTagHierarchyRoot
TagHierarchyRoot ==
    LET allPaths == [i \in DOMAIN projects |-> projects[i].path]
        untaggedPaths == GetUntaggedPaths(allPaths)
        rootTags == GetTagsByPriority(0)
    IN  IF Len(filterTagIds) > 0
        THEN (IF Includes(filterTagIds, "__untagged__") /\ Len(untaggedPaths) > 0
              THEN <<UntaggedTreeItem(Len(untaggedPaths))>> ELSE <<>>)
             \o
             (IF Len(FilterTagNames) > 0
              THEN LET shown == SelectSeq(rootTags,
                                   LAMBDA t : GetFilteredProjectCountUnderTag(
                                                  <<t.name>>, FilterTagNames) > 0)
                   IN  [i \in DOMAIN shown |->
                           TagTreeItem(shown[i], <<shown[i].name>>,
                               GetFilteredProjectCountUnderTag(<<shown[i].name>>, FilterTagNames),
                               ~Includes(FilterTagNames, shown[i].name) /\ groupingDepth > 0)]
              ELSE <<>>)
        ELSE LET shown == SelectSeq(rootTags,
                              LAMBDA t : Len(GetProjectsWithAllTags(<<t.name>>)) > 0)
             IN  [i \in DOMAIN shown |->
                     TagTreeItem(shown[i], <<shown[i].name>>,
                         Len(GetProjectsWithAllTags(<<shown[i].name>>)), groupingDepth > 0)]
                 \o
                 (IF Len(untaggedPaths) > 0
                  THEN <<UntaggedTreeItem(Len(untaggedPaths))>> ELSE <<>>)

\* Sub-tags also below a tag whose priority equals the grouping depth
ShowsNextLevel_inclusive(parentTag) == parentTag.priority <= groupingDepth

\* getTagChildren: currentPriority < config.groupingDepth
ShowsNextLevel(parentTag) == parentTag.priority < groupingDepth

\* getTagChildren: matchingProjects of a next-level tag
MatchingProjects(tagPath, tag) ==
    IF Len(FilterTagNames) > 0
    THEN SelectSeq(GetProjectsWithAllTags(Append(tagPath, tag.name)),
             LAMBDA pr : \E j \in DOMAIN FilterTagNames :
                             Includes(GetTags(pr.path), FilterTagNames[j]))
    ELSE GetProjectsWithAllTags(Append(tagPath, tag.name))

\* getTagChildren: the next-level tags that get a node
NextLevelShown(parentTag, tagPath) ==
    IF ShowsNextLevel(parentTag)
    THEN SelectSeq(GetTagsByPriority(parentTag.priority + 1),
             LAMBDA t : Len(MatchingProjects(tagPath, t)) > 0)
    ELSE <<>>

\* No project is marked as grouped
GroupedProjectPaths_none(parentTag, tagPath) == {}

\* getTagChildren: groupedProjectPaths
GroupedProjectPaths(parentTag, tagPath) ==
    LET shown == NextLevelShown(parentTag, tagPath)
    IN  UNION {{MatchingProjects(tagPath, shown[i])[k].path :
                    k \in DOMAIN MatchingProjects(tagPath, shown[i])} :
               i \in {j \in DOMAIN shown :
                         Len(FilterTagNames) > 0 => Includes(FilterTagNames, shown[j].name)}}

\* getTagChildren
TagChildren(parentTag, tagPath, sortOrder, sortDirection) ==
    LET isFiltered == Len(FilterTagNames) > 0
        nextPriority == parentTag.priority + 1
        shown == NextLevelShown(parentTag, tagPath)
        grouped == GroupedProjectPaths(parentTag, tagPath)
        projectsAtThisLevel ==
            SelectSeq(GetProjectsWithAllTags(tagPath),
                LAMBDA pr :
                    /\ pr.path \notin grouped
                    /\ isFiltered =>
                          /\ \E j \in DOMAIN FilterTagNames :
                                Includes(GetTags(pr.path), FilterTagNames[j])
                          /\ Includes(FilterTagNames, parentTag.name))
        sortedProjects == SortProjects(projectsAtThisLevel, sortOrder, sortDirection)
    IN  [i \in DOMAIN shown |->
            TagTreeItem(shown[i], Append(tagPath, shown[i].name),
                Len(MatchingProjects(tagPath, shown[i])),
                (isFiltered => ~Includes(FilterTagNames, shown[i].name))
                    /\ nextPriority < groupingDepth)]
        \o
        [i \in DOMAIN sortedProjects |->
            ProjectTreeItem(sortedProjects[i],
                SelectSeq(GetTags(sortedProjects[i].path),
                    LAMBDA name : ~Includes(tagPath, name) /\ tags[name] # Undefined))]

\* getUntaggedProjects
UntaggedProjects(sortOrder, sortDirection) ==
    LET allPaths == [i \in DOMAIN projects |-> projects[i].path]
        untaggedPaths == GetUntaggedPaths(allPaths)
        untaggedProjects ==
            [i \in DOMAIN untaggedPaths |->
                projects[CHOOSE k \in DOMAIN projects : projects[k].path = untaggedPaths[i]]]
        sorted == SortProjects(untaggedProjects, sortOrder, sortDirection)
    IN  [i \in DOMAIN sorted |-> ProjectTreeItem(sorted[i], <<>>)]

---------------------------------------------------------------------------
(* getChildren in By Tags view: the root, a tag node or the Untagged group of
   the listing on display is expanded; sortOrder and sortDirection are read from
   the configuration at the call *)

GetTagHierarchyRoot ==
    /\ view' = [parent |-> RootElement, items |-> TagHierarchyRoot]
    /\ UNCHANGED <<tags, metadata, filterTagIds, groupingDepth, rootFolder, timestamps>>
    /\ UNCHANGED storeVars

GetTagChildren(i, sortOrder, sortDirection) ==
    /\ i \in DOMAIN view.items
    /\ view.items[i].kind = "tag"
    /\ view' = [parent |-> view.items[i],
                items |-> TagChildren(view.items[i].tag, view.items[i].tagPath,
                                      sortOrder, sortDirection)]
    /\ UNCHANGED <<tags, metadata, filterTagIds, groupingDepth, rootFolder, timestamps>>
    /\ UNCHANGED storeVars

GetUntaggedProjects(i, sortOrder, sortDirection) ==
    /\ i \in DOMAIN view.items
    /\ view.items[i].kind = "untagged"
    /\ view' = [parent |-> view.items[i],
                items |-> UntaggedProjects(sortOrder, sortDirection)]
    /\ UNCHANGED <<tags, metadata, filterTagIds, groupingDepth, rootFolder, timestamps>>
    /\ UNCHANGED storeVars

\* Tag priorities are 0..MaxPriority, the grouping depth is 0..MaxDepth.
MaxPriority == 1
MaxDepth == 2

\* The tag lists of a project and the filters the quick picks produce
TagLists == {SortedNames(S) : S \in SUBSET TagNames}

FilterLists ==
    {(IF u THEN <<"__untagged__">> ELSE <<>>) \o l : u \in BOOLEAN, l \in TagLists}

\* Both folders are scanned repositories; any tag registry, project tags, filter
\* and grouping depth
InitTree ==
    /\ now = 0
    /\ fs = [p \in Paths |-> "repo"]
    /\ workspace = <<"r", "a">>
    /\ rootFolder = Root
    /\ timestamps = NoRun
    /\ history = <<>>
    /\ savedProjects = <<>>
    /\ excludedPaths = <<>>
    /\ ignoredPaths = <<>>
    /\ postponed = <<>>
    /\ shownThisSession = {}
    /\ notifications = [p \in Paths |-> 0]
    /\ projects = LoadedProjects(<<>>, <<>>)
    /\ recentFolders = <<>>
    /\ ret = NoCall
    /\ opens = [p \in Paths |-> <<>>]
    /\ shownCount = [p \in Paths |-> 0]
    /\ shownSinceReset = [p \in Paths |-> 0]
    /\ calls = 0
    /\ tags \in [TagNames -> (0..MaxPriority) \cup {Undefined}]
    /\ metadata \in [Paths -> TagLists]
    /\ filterTagIds \in FilterLists
    /\ groupingDepth \in 0..MaxDepth
    /\ view = [parent |-> [kind |-> "none"], items |-> <<>>]

NextTree ==
    \/ GetTagHierarchyRoot
    \/ \E i \in 1..Cardinality(TagNames) + 1, o \in SortOrders, d \in SortDirections :
          GetTagChildren(i, o, d)
    \/ \E i \in 1..Cardinality(TagNames) + 1, o \in SortOrders, d \in SortDirections :
          GetUntaggedProjects(i, o, d)

SpecTree == InitTree /\ [][NextTree]_vars

---------------------------------------------------------------------------
(* Claims about the By Tags view, checked under SpecTree *)

TagItems == {view.items[i] : i \in {j \in DOMAIN view.items : view.items[j].kind = "tag"}}

ProjectItems ==
    {view.items[i] : i \in {j \in DOMAIN view.items : view.items[j].kind = "project"}}

UntaggedItems ==
    {view.items[i] : i \in {j \in DOMAIN view.items : view.items[j].kind = "untagged"}}

\* The paths listed directly in the listing on display
DirectPaths == {it.path : it \in ProjectItems}

\* The project carries every tag of the tag path
CarriesAll(p, tagPath) == \A i \in DOMAIN tagPath : Includes(metadata[p], tagPath[i])

CarriesFilterTag(p) == \E j \in DOMAIN filterTagIds : Includes(metadata[p], filterTagIds[j])

\* C7: every root tag node has priority 0; every child tag node of a tag node of
\* priority k has priority k + 1 and exists only while k < groupingDepth; no tag
\* node on display has a priority above groupingDepth; a node's priority is the
\* registry's.
C7_TagNodesNestedByPriority ==
    /\ view.parent.kind = "root" => \A it \in TagItems : it.tag.priority = 0
    /\ view.parent.kind = "tag" =>
          \A it \in TagItems :
              /\ it.tag.priority = view.parent.tag.priority + 1
              /\ view.parent.tag.priority < groupingDepth
    /\ view.parent.kind = "untagged" => TagItems = {}
    /\ \A it \in TagItems :
          /\ it.tag.priority <= groupingDepth
          /\ it.tag.priority = tags[it.tag.name]

\* A tag node shows child tag nodes of the deepest level the grouping depth allows.
C7_Witness ==
    /\ view.parent.kind = "tag"
    /\ TagItems # {}
    /\ view.parent.tag.priority + 1 = groupingDepth

\* The projects shown anywhere below a tag node
RECURSIVE ProjectsUnder(_)
ProjectsUnder(item) ==
    LET children == TagChildren(item.tag, item.tagPath, "recent", "desc")
    IN  {children[i].path : i \in {j \in DOMAIN children : children[j].kind = "project"}}
        \cup
        UNION {ProjectsUnder(children[i]) :
                  i \in {j \in DOMAIN children : children[j].kind = "tag"}}

\* C8: with no filter, among the children of a tag node with tag path P every
\* project carrying all tags of P is either listed directly or shown inside a
\* sub-tag group of that level, never both; it is listed directly exactly when no
\* displayed sub-tag is on it; nothing else is listed, and nothing twice.
C8_GroupedOrDirect ==
    (view.parent.kind = "tag" /\ Len(filterTagIds) = 0) =>
        /\ \A pr \in Range(projects) :
              CarriesAll(pr.path, view.parent.tagPath) =>
                  /\ (pr.path \in DirectPaths)
                        # (\E sub \in TagItems : pr.path \in ProjectsUnder(sub))
                  /\ (pr.path \in DirectPaths)
                        <=> ~\E sub \in TagItems : Includes(metadata[pr.path], sub.tag.name)
        /\ \A p \in DirectPaths : CarriesAll(p, view.parent.tagPath)
        /\ Cardinality(DirectPaths)
              = Cardinality({j \in DOMAIN view.items : view.items[j].kind = "project"})

\* A tag node lists one project directly and another inside a sub-tag group.
C8_Witness ==
    /\ view.parent.kind = "tag"
    /\ Len(filterTagIds) = 0
    /\ DirectPaths # {}
    /\ \E sub \in TagItems : ProjectsUnder(sub) # {} /\ ProjectsUnder(sub) \cap DirectPaths = {}

\* C9: with a non-empty filter every project item under a tag node carries a
\* filter tag; a tag node is on display only if some project carries all tags of
\* its path and a filter tag; the Untagged group is on display only if
\* '__untagged__' is a filter and some project has no tags.
C9_FilterPruning ==
    Len(filterTagIds) > 0 =>
        /\ view.parent.kind = "tag" => \A it \in ProjectItems : CarriesFilterTag(it.path)
        /\ \A it \in TagItems :
              \E pr \in Range(projects) :
                  CarriesAll(pr.path, it.tagPath) /\ CarriesFilterTag(pr.path)
        /\ UntaggedItems # {} =>
              /\ Includes(filterTagIds, "__untagged__")
              /\ \E pr \in Range(projects) : Len(metadata[pr.path]) = 0

\* Under a filter a tag node that is no filter tag shows the sub-tag node leading
\* to a filter tag and leaves out a project of its tag path that carries none.
C9_Witness ==
    /\ Len(filterTagIds) > 0
    /\ view.parent.kind = "tag"
    /\ \E it \in TagItems : Includes(filterTagIds, it.tag.name)
    /\ \E pr \in Range(projects) :
          /\ CarriesAll(pr.path, view.parent.tagPath)
          /\ ~CarriesFilterTag(pr.path)
          /\ pr.path \notin DirectPaths

---------------------------------------------------------------------------
(* ProjectMetadataService: writes. An entry without tags is no entry:
   metadata[p] = <<>> stands for both. *)

\* Array.prototype.indexOf, counting from 1; 0 when absent
IndexOf(s, x) ==
    IF Includes(s, x) THEN CHOOSE i \in DOMAIN s : s[i] = x /\ \A j \in 1..(i - 1) : s[j] # x
    ELSE 0

\* tagIds.splice(index, 1)
Splice(s, index) == SubSeq(s, 1, index - 1) \o SubSeq(s, index + 1, Len(s))

SetTags(p, tagIds) ==
    /\ metadata' = [metadata EXCEPT ![p] = tagIds]
    /\ UNCHANGED <<tags, filterTagIds, groupingDepth, rootFolder, timestamps, view>>
    /\ UNCHANGED storeVars

\* At most MaxTags entries in a project's tag list.
MaxTags == 3

AddTag(p, tagId) ==
    /\ Len(GetTags(p)) < MaxTags
    /\ metadata' = IF ~Includes(GetTags(p), tagId)
                   THEN [metadata EXCEPT ![p] = Append(@, tagId)]
                   ELSE metadata
    /\ UNCHANGED <<tags, filterTagIds, groupingDepth, rootFolder, timestamps, view>>
    /\ UNCHANGED storeVars

RemoveTag(p, tagId) ==
    /\ metadata' = [metadata EXCEPT ![p] = SelectSeq(@, LAMBDA id : id # tagId)]
    /\ UNCHANGED <<tags, filterTagIds, groupingDepth, rootFolder, timestamps, view>>
    /\ UNCHANGED storeVars

\* clearTagFromAll: the metadata it stores
ClearTagFromAllMetadata(tagName) ==
    [p \in DOMAIN metadata |->
        IF IndexOf(metadata[p], tagName) # 0
        THEN Splice(metadata[p], IndexOf(metadata[p], tagName))
        ELSE metadata[p]]

ClearTagFromAll(tagName) ==
    /\ metadata' = ClearTagFromAllMetadata(tagName)
    /\ UNCHANGED <<tags, filterTagIds, groupingDepth, rootFolder, timestamps, view>>
    /\ UNCHANGED storeVars

\* renameTagInAll: the metadata it stores
RenameTagInAllMetadata(oldName, newName) ==
    [p \in DOMAIN metadata |->
        IF IndexOf(metadata[p], oldName) # 0
        THEN [metadata[p] EXCEPT ![IndexOf(metadata[p], oldName)] = newName]
        ELSE metadata[p]]

RenameTagInAll(oldName, newName) ==
    /\ metadata' = RenameTagInAllMetadata(oldName, newName)
    /\ UNCHANGED <<tags, filterTagIds, groupingDepth, rootFolder, timestamps, view>>
    /\ UNCHANGED storeVars

\* The project metadata service over an empty globalState. setTags receives what
\* its callers pass: the names picked in the edit-tags quick pick (each tag once)
\* or, from a drop on the Untagged group, the empty list.
InitMeta ==
    /\ now = 0
    /\ fs = [p \in Paths |-> "repo"]
    /\ workspace = NoPath
    /\ EmptyState
    /\ NoTags

NextMeta ==
    \/ \E p \in Paths, tagIds \in TagLists : SetTags(p, tagIds)
    \/ \E p \in Paths, t \in TagNames : AddTag(p, t)
    \/ \E p \in Paths, t \in TagNames : RemoveTag(p, t)
    \/ \E t \in TagNames : ClearTagFromAll(t)
    \/ \E old \in TagNames, new \in TagNames : RenameTagInAll(old, new)

SpecMeta == InitMeta /\ [][NextMeta]_vars

\* C10: no project's stored tag list holds the same tag name twice.
C10_NoDuplicateTags ==
    \A p \in Paths :
        \A i, j \in DOMAIN metadata[p] : metadata[p][i] = metadata[p][j] => i = j

---------------------------------------------------------------------------
(* A long history: recordOpen and pruneHistory at MAX_HISTORY_ENTRIES *)

\* The i-th folder of a long history
HistPath(i) == <<"r", ToString(i)>>

ManyPaths == {HistPath(i) : i \in 1..(MAX_HISTORY_ENTRIES + 3)}

\* The one linked worktree among them
WorktreeFolder == HistPath(MAX_HISTORY_ENTRIES + 3)

\* The folders opened: one in the history from the start, two new to it and the
\* linked worktree
OpenPaths ==
    {HistPath(MAX_HISTORY_ENTRIES - 1), HistPath(MAX_HISTORY_ENTRIES + 1),
     HistPath(MAX_HISTORY_ENTRIES + 2), WorktreeFolder}

\* The histories a run starts from: one short of full, holding projects with
\* initialized timestamps, and a full one of opened folders
HistoryStarts ==
    {<<MAX_HISTORY_ENTRIES - 1, "initialized">>, <<MAX_HISTORY_ENTRIES, "opened">>}

\* A history of n entries written on earlier days: by initializeTimestamp with
\* no commit date (the epoch, openCount 0), or by recordOpen on days 0 to 2
FilledHistory(n, shape) ==
    [i \in 1..n |->
        IF shape = "initialized"
        THEN [path |-> HistPath(i), lastOpened |-> 0, openCount |-> 0, firstOpened |-> 0]
        ELSE [path |-> HistPath(i), lastOpened |-> (i % 3) * DayMs, openCount |-> 1,
              firstOpened |-> (i % 3) * DayMs]]

InitPrune ==
    /\ now = POSTPONE_DURATION_DAYS * DayMs
    /\ fs = [p \in ManyPaths |-> IF p = WorktreeFolder THEN "worktree" ELSE "dir"]
    /\ workspace = NoPath
    /\ \E start \in HistoryStarts : history = FilledHistory(start[1], start[2])
    /\ savedProjects = <<>>
    /\ excludedPaths = <<>>
    /\ ignoredPaths = <<>>
    /\ postponed = <<>>
    /\ shownThisSession = {}
    /\ notifications = [p \in Paths |-> 0]
    /\ projects = <<>>
    /\ recentFolders = <<>>
    /\ ret = NoCall
    /\ opens = [p \in OpenPaths |-> <<>>]
    /\ shownCount = [p \in Paths |-> 0]
    /\ shownSinceReset = [p \in Paths |-> 0]
    /\ calls = 0
    /\ NoTags

NextPrune ==
    \/ Tick
    \/ \E p \in OpenPaths : RecordOpen(p)

SpecPrune == InitPrune /\ [][NextPrune]_vars

---------------------------------------------------------------------------
(* Claims about recordOpen and pruneHistory, checked under SpecPrune *)

\* C11: recordOpen(p) for a folder that is no linked worktree creates the entry
\* [openCount 1, firstOpened = lastOpened = now] when the history has none for p,
\* and otherwise adds exactly 1 to openCount, sets lastOpened to now and keeps
\* firstOpened; for a linked worktree it leaves the history unchanged.
C11_RecordOpen ==
    [][\A p \in DOMAIN opens :
          opens'[p] # opens[p] =>
              IF fs[p] = "worktree"
              THEN history' = history
              ELSE /\ HasEntry(history', p)
                   /\ EntryOf(history', p) =
                         IF HasEntry(history, p)
                         THEN [EntryOf(history, p) EXCEPT !.openCount = @ + 1,
                                                          !.lastOpened = now]
                         ELSE [path |-> p, lastOpened |-> now, openCount |-> 1,
                               firstOpened |-> now]
    ]_vars

\* The worktree was opened and has no entry; a folder new to the history was
\* opened on two different days.
C11_Witness ==
    /\ Len(opens[WorktreeFolder]) > 0
    /\ ~HasEntry(history, WorktreeFolder)
    /\ \E p \in DOMAIN opens :
          /\ Len(opens[p]) = 2
          /\ HasEntry(history, p)
          /\ EntryOf(history, p).openCount = 2
          /\ EntryOf(history, p).firstOpened < EntryOf(history, p).lastOpened

\* C16: when recordOpen leaves more than MAX_HISTORY_ENTRIES entries before
\* pruning, exactly MAX_HISTORY_ENTRIES remain and every removed entry has
\* lastOpened at most the lastOpened of every kept entry; with
\* MAX_HISTORY_ENTRIES entries or fewer nothing is removed.
C16_PruneKeepsMostRecent ==
    [][\A p \in DOMAIN opens :
          (opens'[p] # opens[p] /\ fs[p] # "worktree") =>
              LET size == Len(history) + (IF HasEntry(history, p) THEN 0 ELSE 1)
              IN  IF size > MAX_HISTORY_ENTRIES
                  THEN /\ Len(history') = MAX_HISTORY_ENTRIES
                       /\ Cardinality(PathsOf(history')) = MAX_HISTORY_ENTRIES
                       /\ \A j \in DOMAIN history' :
                             history'[j].path = p \/ HasEntry(history, history'[j].path)
                       /\ \A i \in DOMAIN history :
                             (history[i].path # p /\ ~HasEntry(history', history[i].path))
                                 => \A j \in DOMAIN history' :
                                        history[i].lastOpened <= history'[j].lastOpened
                       /\ ~HasEntry(history', p)
                             => \A j \in DOMAIN history' : now <= history'[j].lastOpened
                  ELSE /\ Len(history') = size
                       /\ \A i \in DOMAIN history : history'[i].path = history[i].path
                       /\ history'[size].path = p \/ HasEntry(history, p)
    ]_vars

\* The history is full, an entry of the initial history was pruned and a folder
\* opened since is in it.
C16_Witness ==
    /\ Len(history) = MAX_HISTORY_ENTRIES
    /\ \E i \in 1..(MAX_HISTORY_ENTRIES - 1) : ~HasEntry(history, HistPath(i))
    /\ HasEntry(history, HistPath(MAX_HISTORY_ENTRIES + 2))

---------------------------------------------------------------------------
(* The directory walk of scanProjects *)

\* At most MaxScanDepth is configured as maxScanDepth.
MaxScanDepth == 2

\* The folders of the walk: the root folder, folders one to three levels below
\* it and a node_modules folder with a subfolder
ScanPaths ==
    Paths \cup {Root, <<"r", "a", "x">>, <<"r", "a", "x", "y">>,
                <<"r", "node_modules">>, <<"r", "node_modules", "x">>}

\* Values of the excludePatterns setting
ExcludePatternLists == {<<>>, DefaultExcludePatterns, <<"n*">>, <<"*s", "b">>}

\* scanProjects(config): ret holds the configuration and the paths reported
ScanProjectsCall(root, excludePatterns, maxScanDepth) ==
    /\ UNCHANGED treeVars
    /\ ret' = [op |-> "scanProjects", rootFolder |-> root,
               excludePatterns |-> excludePatterns, maxScanDepth |-> maxScanDepth,
               result |-> LET found == ScanProjectsIn(root, excludePatterns, maxScanDepth)
                          IN  [i \in DOMAIN found |-> found[i].path]]
    /\ UNCHANGED <<now, fs, workspace, history, savedProjects, excludedPaths, ignoredPaths,
                   postponed, shownThisSession, notifications, projects, recentFolders,
                   opens, shownCount, shownSinceReset, calls>>

InitScan ==
    /\ now = 0
    /\ fs \in [ScanPaths -> {"dir", "repo", "worktree"}]
    /\ fs[Root] # "worktree"
    /\ workspace = NoPath
    /\ EmptyState
    /\ NoTags

NextScan ==
    \E root \in {Root, NoPath}, excludePatterns \in ExcludePatternLists,
       maxScanDepth \in 0..MaxScanDepth :
        ScanProjectsCall(root, excludePatterns, maxScanDepth)

SpecScan == InitScan /\ [][NextScan]_vars

---------------------------------------------------------------------------
(* Claims about scanProjects, checked under SpecScan *)

\* A folder name matches an exclude pattern: it equals the pattern, or the
\* pattern is a prefix, '*', a suffix and the name has that prefix and suffix
MatchesPattern(name, pattern) ==
    LET pc == Chars(pattern)
        nc == Chars(name)
    IN  IF \A i \in DOMAIN pc : pc[i] # "*"
        THEN name = pattern
        ELSE LET k == CHOOSE i \in DOMAIN pc : pc[i] = "*"
                 prefix == SubSeq(pc, 1, k - 1)
                 suffix == SubSeq(pc, k + 1, Len(pc))
             IN  /\ Len(nc) >= Len(prefix) + Len(suffix)
                 /\ SubSeq(nc, 1, Len(prefix)) = prefix
                 /\ SubSeq(nc, Len(nc) - Len(suffix) + 1, Len(nc)) = suffix

\* C15: every folder scanProjects reports is a git repository (.git a directory)
\* at most maxScanDepth levels below the root folder (the root being level 0);
\* none of the folders above it is a reported repository or a linked worktree,
\* and neither it nor a folder between it and the root has a name matching an
\* exclude pattern.
C15_WalkBoundedByDepth ==
    ret.op = "scanProjects" =>
        \A i \in DOMAIN ret.result :
            LET p == ret.result[i]
                root == ret.rootFolder
            IN  /\ root # NoPath
                /\ p = root \/ IsPrefix(root, p)
                /\ Len(p) - Len(root) <= ret.maxScanDepth
                /\ fs[p] = "repo"
                /\ \A k \in Len(root)..(Len(p) - 1) :
                      /\ SubSeq(p, 1, k) \notin Range(ret.result)
                      /\ fs[SubSeq(p, 1, k)] # "worktree"
                /\ \A k \in (Len(root) + 1)..Len(p) :
                      \A j \in DOMAIN ret.excludePatterns :
                          ~MatchesPattern(p[k], ret.excludePatterns[j])

\* A walk of depth 1 reported /r/b and nothing else, leaving out a repository
\* two levels down, a repository in a folder excluded by a '*' pattern and
\* the folders below a linked worktree.
C15_Witness ==
    /\ ret.op = "scanProjects"
    /\ ret.maxScanDepth = 1
    /\ ret.excludePatterns = <<"n*">>
    /\ ret.result = <<(<<"r", "b">>)>>
    /\ fs[<<"r", "node_modules">>] = "repo"
    /\ fs[<<"r", "a">>] = "dir"
    /\ fs[<<"r", "a", "x">>] = "repo"

---------------------------------------------------------------------------
(* SavedProjectsService: saveProject, removeSavedProject, updateProject *)

\* At most MaxSaved records are stored in the saved list.
MaxSaved == 3

\* An update that leaves the field alone (updates.displayName === undefined)
NotGiven == "(undefined)"

\* displayName and description handed to updateProject: not given, cleared, a text
UpdateTexts == {NotGiven, "", "text"}

\* saved[index].field = value || undefined; the stored JSON has no field for undefined
SetField(rec, field, value) ==
    IF value = NotGiven
    THEN rec
    ELSE IF value = ""
    THEN [f \in DOMAIN rec \ {field} |-> rec[f]]
    ELSE [f \in DOMAIN rec \cup {field} |-> IF f = field THEN value ELSE rec[f]]

\* removeSavedProject: the stored list it leaves
RemoveSavedProjectSaved(p) == SelectSeq(GetSavedProjects, LAMBDA x : x.path # p)

\* updateProject storing the updates without reading the list again
UpdateProjectSaved_append(p, updates) ==
    Append(savedProjects,
           SetField(SetField([name |-> Basename(p), path |-> p, savedAt |-> now],
                             "displayName", updates.displayName),
                    "description", updates.description))

\* updateProject: the stored list it leaves
UpdateProjectSaved(p, updates) ==
    LET stored == IF IsSaved(p) THEN savedProjects ELSE SaveProjectSaved(p)
        saved == SelectSeq(stored, LAMBDA x : ExistsSync(x.path))
        found == {i \in DOMAIN saved : saved[i].path = p}
    IN  IF found = {}
        THEN stored
        ELSE LET index == CHOOSE i \in found : \A j \in found : i <= j
             IN  [saved EXCEPT ![index] =
                     SetField(SetField(@, "displayName", updates.displayName),
                              "description", updates.description)]

\* saveProject(p), as a call of its own
SaveProjectCall(p) ==
    /\ UNCHANGED treeVars
    /\ Len(savedProjects) < MaxSaved
    /\ savedProjects' = SaveProjectSaved(p)
    /\ excludedPaths' = SaveProjectExcluded(p)
    /\ ret' = [op |-> "saveProject", path |-> p]
    /\ UNCHANGED <<now, fs, workspace, history, ignoredPaths, postponed,
                   shownThisSession, notifications, projects, recentFolders,
                   opens, shownCount, shownSinceReset, calls>>

RemoveSavedProject(p) ==
    /\ UNCHANGED treeVars
    /\ savedProjects' = RemoveSavedProjectSaved(p)
    /\ ret' = [op |-> "removeSavedProject", path |-> p]
    /\ UNCHANGED <<now, fs, workspace, history, excludedPaths, ignoredPaths, postponed,
                   shownThisSession, notifications, projects, recentFolders,
                   opens, shownCount, shownSinceReset, calls>>

UpdateProject(p, updates) ==
    /\ UNCHANGED treeVars
    /\ Len(savedProjects) < MaxSaved
    /\ savedProjects' = UpdateProjectSaved(p, updates)
    /\ excludedPaths' = SaveProjectExcluded(p)
    /\ ret' = [op |-> "updateProject", path |-> p]
    /\ UNCHANGED <<now, fs, workspace, history, ignoredPaths, postponed,
                   shownThisSession, notifications, projects, recentFolders,
                   opens, shownCount, shownSinceReset, calls>>

InitSaved ==
    /\ now = 0
    /\ fs = [p \in Paths |-> "dir"]
    /\ workspace = NoPath
    /\ EmptyState
    /\ NoTags

NextSaved ==
    \/ Tick
    \/ \E p \in Paths, kind \in FileKinds : FsChange(p, kind)
    \/ \E p \in Paths : SaveProjectCall(p)
    \/ \E p \in Paths : RemoveSavedProject(p)
    \/ \E p \in Paths, displayName \in UpdateTexts, description \in UpdateTexts :
          UpdateProject(p, [displayName |-> displayName, description |-> description])

SpecSaved == InitSaved /\ [][NextSaved]_vars

---------------------------------------------------------------------------
(* Claims about the saved list, checked under SpecSaved *)

\* C19: the stored saved list holds at most one record per path, and saveProject
\* for a path that is already saved (isSaved: a stored record whose folder
\* exists) leaves the stored list, and so the record's name, savedAt,
\* displayName and description, unchanged.
C19_SaveIdempotent ==
    /\ [](\A i, j \in DOMAIN savedProjects :
              savedProjects[i].path = savedProjects[j].path => i = j)
    /\ [][(ret'.op = "saveProject"
              /\ \E i \in DOMAIN savedProjects :
                    savedProjects[i].path = ret'.path /\ fs[ret'.path] # "missing")
             => savedProjects' = savedProjects]_vars

\* saveProject has just been called, on a later day, for a saved project that
\* carries a display name and a description, next to another saved project.
C19_Witness ==
    /\ ret.op = "saveProject"
    /\ Len(savedProjects) = 2
    /\ \E i \in DOMAIN savedProjects :
          /\ savedProjects[i].path = ret.path
          /\ savedProjects[i].savedAt < now
          /\ DOMAIN savedProjects[i] = {"name", "path", "savedAt", "displayName", "description"}

---------------------------------------------------------------------------
(* Commands on the project list: refresh, save, remove, rescan, set root folder *)

\* excludePath: the stored list it leaves
ExcludePathList(p) ==
    IF p \in Range(excludedPaths) THEN excludedPaths ELSE Append(excludedPaths, p)

\* projectory.saveToProjects on a Recent folder item
SaveToProjects(p, commit) ==
    /\ UNCHANGED treeVars
    /\ p \in PathsOf(recentFolders)
    /\ savedProjects' = SaveProjectSaved(p)
    /\ excludedPaths' = SaveProjectExcluded(p)
    /\ RefreshProjects(SaveProjectSaved(p), SaveProjectExcluded(p), commit)
    /\ ret' = [op |-> "saveToProjects", path |-> p]
    /\ UNCHANGED <<now, fs, workspace, ignoredPaths, postponed, shownThisSession,
                   notifications, opens, shownCount, shownSinceReset, calls>>

\* projectory.removeFromProjects on a project item
RemoveFromProjects(p, commit) ==
    /\ UNCHANGED treeVars
    /\ p \in PathsOf(projects)
    /\ IF IsSaved(p)
       THEN /\ savedProjects' = RemoveSavedProjectSaved(p)
            /\ UNCHANGED excludedPaths
            /\ RefreshProjects(RemoveSavedProjectSaved(p), excludedPaths, commit)
       ELSE /\ excludedPaths' = ExcludePathList(p)
            /\ UNCHANGED savedProjects
            /\ RefreshProjects(savedProjects, ExcludePathList(p), commit)
    /\ ret' = [op |-> "removeFromProjects", path |-> p]
    /\ UNCHANGED <<now, fs, workspace, ignoredPaths, postponed, shownThisSession,
                   notifications, opens, shownCount, shownSinceReset, calls>>

\* The folder picked in the 'Select Projects Root Folder' dialog; NoPath when
\* the dialog is cancelled
RootPicks == {Root, NoPath}

\* projectory.setRootFolder: selectRootFolder, then refresh
SetRootFolder(pick, commit) ==
    /\ rootFolder' = IF pick # NoPath THEN pick ELSE rootFolder
    /\ RefreshProjectsAt(IF pick # NoPath THEN pick ELSE rootFolder,
                         savedProjects, excludedPaths, commit)
    /\ ret' = [op |-> "setRootFolder"]
    /\ UNCHANGED <<tags, metadata, filterTagIds, groupingDepth, timestamps, view>>
    /\ UNCHANGED <<now, fs, workspace, savedProjects, excludedPaths, ignoredPaths, postponed,
                   shownThisSession, notifications, opens, shownCount, shownSinceReset,
                   calls>>

\* The answers to 'Root folder is not set. Would you like to set it now?'
RescanAnswers == {"Set Root Folder", "Cancel", "dismissed"}

\* projectory.rescanProjects keeping the excluded paths
RescanProjects_keepExcluded(answer, pick, commit) ==
    /\ IF rootFolder = NoPath
       THEN IF answer = "Set Root Folder"
            THEN /\ rootFolder' = IF pick # NoPath THEN pick ELSE rootFolder
                 /\ RefreshProjectsAt(IF pick # NoPath THEN pick ELSE rootFolder,
                                      savedProjects, excludedPaths, commit)
                 /\ UNCHANGED excludedPaths
            ELSE UNCHANGED <<rootFolder, excludedPaths, projects, recentFolders, history>>
       ELSE /\ UNCHANGED excludedPaths
            /\ RefreshProjects(savedProjects, excludedPaths, commit)
            /\ UNCHANGED rootFolder
    /\ ret' = [op |-> "rescanProjects", answer |-> answer, cleared |-> excludedPaths]
    /\ UNCHANGED <<tags, metadata, filterTagIds, groupingDepth, timestamps, view>>
    /\ UNCHANGED <<now, fs, workspace, savedProjects, ignoredPaths, postponed,
                   shownThisSession, notifications, opens, shownCount, shownSinceReset,
                   calls>>

\* projectory.rescanProjects: without a root folder the warning, and the
\* setRootFolder command when that is the answer; with one, the excluded paths
\* are cleared and the list is refreshed
RescanProjects(answer, pick, commit) ==
    /\ IF rootFolder = NoPath
       THEN IF answer = "Set Root Folder"
            THEN /\ rootFolder' = IF pick # NoPath THEN pick ELSE rootFolder
                 /\ RefreshProjectsAt(IF pick # NoPath THEN pick ELSE rootFolder,
                                      savedProjects, excludedPaths, commit)
                 /\ UNCHANGED excludedPaths
            ELSE UNCHANGED <<rootFolder, excludedPaths, projects, recentFolders, history>>
       ELSE /\ excludedPaths' = <<>>
            /\ RefreshProjects(savedProjects, <<>>, commit)
            /\ UNCHANGED rootFolder
    /\ ret' = [op |-> "rescanProjects", answer |-> answer, cleared |-> excludedPaths]
    /\ UNCHANGED <<tags, metadata, filterTagIds, groupingDepth, timestamps, view>>
    /\ UNCHANGED <<now, fs, workspace, savedProjects, ignoredPaths, postponed,
                   shownThisSession, notifications, opens, shownCount, shownSinceReset,
                   calls>>

InitProjects ==
    /\ now = 0
    /\ fs \in [Paths -> {"dir", "repo"}]
    /\ workspace = NoPath
    /\ EmptyState
    /\ tags = [n \in TagNames |-> Undefined]
    /\ metadata = [p \in Paths |-> <<>>]
    /\ filterTagIds = <<>>
    /\ groupingDepth = 1
    /\ rootFolder \in {Root, NoPath}
    /\ timestamps = NoRun
    /\ view = [parent |-> [kind |-> "none"], items |-> <<>>]

NextProjects ==
    \/ \E p \in Paths : RecordOpen(p)
    \/ \E commit \in CommitDates : Refresh(commit)
    \/ \E p \in Paths, commit \in CommitDates : SaveToProjects(p, commit)
    \/ \E p \in Paths, commit \in CommitDates : RemoveFromProjects(p, commit)
    \/ \E pick \in RootPicks, commit \in CommitDates : SetRootFolder(pick, commit)
    \/ \E answer \in RescanAnswers, pick \in RootPicks, commit \in CommitDates :
          RescanProjects(answer, pick, commit)

SpecProjects == InitProjects /\ [][NextProjects]_vars

---------------------------------------------------------------------------
(* Claims about the project list, checked under SpecProjects *)

\* The commands that end with a refresh of the project list
RefreshingOps == {"refreshProjects", "saveToProjects", "removeFromProjects", "setRootFolder"}

\* C12: after a refresh the project list is the scanned repositories whose path
\* is not excluded, followed by the saved projects (existing on disk) whose path
\* is not among them; no path occurs twice.
C12_ScannedThenSaved ==
    ret.op \in RefreshingOps =>
        LET scanned == {p \in Paths : /\ rootFolder # NoPath
                                       /\ fs[p] = "repo"
                                       /\ p \notin Range(excludedPaths)}
            saved == {savedProjects[i].path :
                         i \in {j \in DOMAIN savedProjects :
                                   fs[savedProjects[j].path] # "missing"}} \ scanned
            k == Cardinality(scanned)
        IN  /\ Len(projects) = k + Cardinality(saved)
            /\ {projects[i].path : i \in 1..k} = scanned
            /\ \A i \in 1..k : projects[i].isGitRepo
            /\ {projects[i].path : i \in (k + 1)..Len(projects)} = saved
            /\ \A i, j \in DOMAIN projects : projects[i].path = projects[j].path => i = j

\* After a refresh the list holds a scanned repository that is also in the saved
\* list, once, followed by a saved project that is no repository.
C12_Witness ==
    /\ ret.op \in RefreshingOps
    /\ Len(projects) = 2
    /\ projects[1].isGitRepo
    /\ projects[1].path \in PathsOf(savedProjects)
    /\ ~projects[2].isGitRepo

\* C13 as stated: with a root folder configured, rescanProjects leaves the
\* excluded list empty and every repository of the scan in the project list;
\* with none configured it changes neither the excluded list nor the project list.
C13_RescanAsStated ==
    [][ret'.op = "rescanProjects" =>
          IF rootFolder # NoPath
          THEN /\ excludedPaths' = <<>>
               /\ \A p \in Paths : fs[p] = "repo" => p \in PathsOf(projects')
          ELSE /\ excludedPaths' = excludedPaths
               /\ projects' = projects
    ]_vars

\* C13 as amended: with none configured it never changes the excluded list, and
\* it leaves the project list unchanged unless the warning is answered with
\* 'Set Root Folder'.
C13_RescanOrSetRoot ==
    [][ret'.op = "rescanProjects" =>
          IF rootFolder # NoPath
          THEN /\ excludedPaths' = <<>>
               /\ \A p \in Paths : fs[p] = "repo" => p \in PathsOf(projects')
          ELSE /\ excludedPaths' = excludedPaths
               /\ ret'.answer # "Set Root Folder" => projects' = projects
    ]_vars

\* A rescan with a root folder has cleared a non-empty excluded list and the
\* repositories that were excluded are in the project list again.
C13_Witness ==
    /\ ret.op = "rescanProjects"
    /\ rootFolder # NoPath
    /\ ret.cleared # <<>>
    /\ excludedPaths = <<>>
    /\ \A i \in DOMAIN ret.cleared : ret.cleared[i] \in PathsOf(projects)

---------------------------------------------------------------------------
(* projectory.resetAllData *)

\* The answers to the modal warning of resetAllData
ResetAnswers == {"Reset All Data", "Cancel"}

\* resetAllData without historyService.clearHistory()
ResetAllData_keepHistory(confirm, commit) ==
    /\ IF confirm = "Reset All Data"
       THEN /\ tags' = [n \in TagNames |-> Undefined]
            /\ metadata' = [p \in Paths |-> <<>>]
            /\ savedProjects' = <<>>
            /\ excludedPaths' = <<>>
            /\ ignoredPaths' = <<>>
            /\ postponed' = <<>>
            /\ shownThisSession' = {}
            /\ shownSinceReset' = [p \in Paths |-> 0]
            /\ LET loaded == LoadedProjectsAt(rootFolder, <<>>, <<>>)
               IN  /\ projects' = loaded
                   /\ recentFolders' = <<>>
                   /\ history' = InitializeProjectTimestamps(loaded, GetRecentFoldersHistory, commit)
       ELSE UNCHANGED <<tags, metadata, savedProjects, excludedPaths, ignoredPaths,
                        postponed, shownThisSession, shownSinceReset, projects,
                        recentFolders, history>>
    /\ ret' = [op |-> "resetAllData", confirm |-> confirm]
    /\ UNCHANGED <<filterTagIds, groupingDepth, rootFolder, timestamps, view>>
    /\ UNCHANGED <<now, fs, workspace, notifications, opens, shownCount, calls>>

\* resetAllData: once confirmed, the five resets and the refresh, which finds
\* an empty history: no recent folder, and every project's timestamp initialized
ResetAllData(confirm, commit) ==
    /\ IF confirm = "Reset All Data"
       THEN /\ tags' = [n \in TagNames |-> Undefined]
            /\ metadata' = [p \in Paths |-> <<>>]
            /\ savedProjects' = <<>>
            /\ excludedPaths' = <<>>
            /\ ignoredPaths' = <<>>
            /\ postponed' = <<>>
            /\ shownThisSession' = {}
            /\ shownSinceReset' = [p \in Paths |-> 0]
            /\ LET loaded == LoadedProjectsAt(rootFolder, <<>>, <<>>)
               IN  /\ projects' = loaded
                   /\ recentFolders' = <<>>
                   /\ history' = InitializeProjectTimestamps(loaded, <<>>, commit)
       ELSE UNCHANGED <<tags, metadata, savedProjects, excludedPaths, ignoredPaths,
                        postponed, shownThisSession, shownSinceReset, projects,
                        recentFolders, history>>
    /\ ret' = [op |-> "resetAllData", confirm |-> confirm]
    /\ UNCHANGED <<filterTagIds, groupingDepth, rootFolder, timestamps, view>>
    /\ UNCHANGED <<now, fs, workspace, notifications, opens, shownCount, calls>>

\* The tag registry and the metadata store a session starts with
ResetTags ==
    [n \in TagNames |-> IF n = "x" THEN 0 ELSE IF n = "y" THEN 1 ELSE Undefined]

ResetMetadata ==
    [p \in Paths |-> IF p = <<"r", "a">> THEN <<"y", "x">> ELSE <<"x">>]

\* The folders of a session: a scanned repository and a plain folder
ResetFolders == [p \in Paths |-> IF p = <<"r", "a">> THEN "repo" ELSE "dir"]

InitReset ==
    /\ now = 0
    /\ fs = ResetFolders
    /\ workspace = NoPath
    /\ EmptyState
    /\ tags = ResetTags
    /\ metadata = ResetMetadata
    /\ filterTagIds = <<>>
    /\ groupingDepth = 1
    /\ rootFolder = Root
    /\ timestamps = NoRun
    /\ view = [parent |-> [kind |-> "none"], items |-> <<>>]

NextReset ==
    \/ \E p \in Paths : RecordOpen(p)
    \/ \E commit \in CommitDates : SaveToProjects(<<"r", "b">>, commit)
    \/ \E commit \in CommitDates : RemoveFromProjects(<<"r", "a">>, commit)
    \/ IgnorePath(<<"r", "a">>)
    \/ PostponeSuggestion(<<"r", "b">>)
    \/ ShowSuggestion(EntryFor(<<"r", "b">>))
    \/ \E confirm \in ResetAnswers, commit \in CommitDates : ResetAllData(confirm, commit)

SpecReset == InitReset /\ [][NextReset]_vars

---------------------------------------------------------------------------
(* Claims about resetAllData, checked under SpecReset *)

\* C14: once confirmed, resetAllData leaves the tag registry, the project
\* metadata, the saved list, the excluded list, the ignored and the postponed
\* suggestions empty, the shown-this-session set empty, and in the workspace
\* history no entry recorded before the reset: only the timestamps (openCount 0)
\* that the closing refresh initializes for the projects it finds. Without the
\* confirmation none of these stores changes.
C14_ResetAllData ==
    [][ret'.op = "resetAllData" =>
          IF ret'.confirm = "Reset All Data"
          THEN /\ \A n \in TagNames : tags'[n] = Undefined
               /\ \A p \in Paths : metadata'[p] = <<>>
               /\ savedProjects' = <<>>
               /\ excludedPaths' = <<>>
               /\ ignoredPaths' = <<>>
               /\ postponed' = <<>>
               /\ shownThisSession' = {}
               /\ \A i \in DOMAIN history' :
                     /\ history'[i].openCount = 0
                     /\ history'[i].path \in PathsOf(projects')
          ELSE UNCHANGED <<tags, metadata, savedProjects, excludedPaths, history,
                           ignoredPaths, postponed, shownThisSession>>
    ]_vars

\* A confirmed reset has just run after folders were opened, a suggestion was
\* shown and a folder was saved, ignored or postponed; the history holds the
\* initialized timestamp of a scanned project that had been opened.
C14_Witness ==
    /\ ret.op = "resetAllData"
    /\ ret.confirm = "Reset All Data"
    /\ calls > 0
    /\ \E p \in Paths : shownCount[p] > 0
    /\ \E p \in Paths :
          /\ Len(opens[p]) > 0
          /\ HasEntry(history, p)
          /\ EntryOf(history, p).openCount = 0

---------------------------------------------------------------------------
(* WorkspaceHistoryService.getRecentFolders *)

\* The folders of the history: a folder inside project a, the folder b, a
\* folder under "b.worktrees", and a plain folder opened in an earlier session
\* and deleted since
InsideFolder == <<"r", "a", "x">>
PlainFolder == <<"r", "c">>
WorktreesFolder == <<"r", "b.worktrees", "w">>
RecentPaths == Paths \cup {InsideFolder, PlainFolder, WorktreesFolder}
OpenedFolders == {<<"r", "b">>, InsideFolder, WorktreesFolder}

\* The stored history of the earlier session
EarlierHistory ==
    <<[path |-> PlainFolder, lastOpened |-> 0, openCount |-> 1, firstOpened |-> 0]>>

ProjectOf(p) == [name |-> Basename(p), path |-> p, isGitRepo |-> TRUE, worktrees |-> <<>>]

\* The project lists handed to getRecentFolders
ProjectLists ==
    {<<>>, <<ProjectOf(<<"r", "a">>)>>, <<ProjectOf(<<"r", "a">>), ProjectOf(<<"r", "b">>)>>}

GetRecentFoldersCall(excludeProjects) ==
    /\ UNCHANGED treeVars
    /\ history' = GetRecentFoldersHistory
    /\ ret' = [op |-> "getRecentFolders", projects |-> excludeProjects,
               folders |-> GetRecentFolders(excludeProjects)]
    /\ UNCHANGED <<now, fs, workspace, savedProjects, excludedPaths, ignoredPaths,
                   postponed, shownThisSession, notifications, projects, recentFolders,
                   opens, shownCount, shownSinceReset, calls>>

InitRecent ==
    /\ now = 0
    /\ fs = [p \in RecentPaths |->
               IF p \in Paths THEN "repo" ELSE IF p = PlainFolder THEN "missing" ELSE "dir"]
    /\ workspace = NoPath
    /\ history = EarlierHistory
    /\ savedProjects = <<>>
    /\ excludedPaths = <<>>
    /\ ignoredPaths = <<>>
    /\ postponed = <<>>
    /\ shownThisSession = {}
    /\ notifications = [p \in Paths |-> 0]
    /\ projects = <<>>
    /\ recentFolders = <<>>
    /\ ret = NoCall
    /\ opens = [p \in OpenedFolders \cup {PlainFolder} |->
                  IF p = PlainFolder THEN <<0>> ELSE <<>>]
    /\ shownCount = [p \in Paths |-> 0]
    /\ shownSinceReset = [p \in Paths |-> 0]
    /\ calls = 0
    /\ NoTags

NextRecent ==
    \/ Tick
    \/ \E p \in OpenedFolders : RecordOpen(p)
    \/ FsChange(WorktreesFolder, "missing")
    \/ \E excludeProjects \in ProjectLists : GetRecentFoldersCall(excludeProjects)

SpecRecent == InitRecent /\ [][NextRecent]_vars

---------------------------------------------------------------------------
(* Claims about getRecentFolders, checked under SpecRecent *)

\* C18: getRecentFolders(projects) returns history folders most recent first;
\* no returned folder equals a project path, lies inside a project folder or
\* does not exist; and the call removes from the stored history exactly the
\* entries whose path does not exist, leaving every other entry unchanged.
C18_RecentFolders ==
    [][ret'.op = "getRecentFolders" =>
          LET out == ret'.folders
              given == {ret'.projects[i].path : i \in DOMAIN ret'.projects}
          IN  /\ \A i, j \in DOMAIN out : i < j => out[i].lastOpened >= out[j].lastOpened
              /\ \A i \in DOMAIN out :
                    /\ HasEntry(history, out[i].path)
                    /\ out[i].lastOpened = EntryOf(history, out[i].path).lastOpened
                    /\ out[i].path \notin given
                    /\ ~\E q \in given :
                          /\ Len(q) < Len(out[i].path)
                          /\ \A k \in DOMAIN q : q[k] = out[i].path[k]
                    /\ fs[out[i].path] # "missing"
              /\ history' = SelectSeq(history, LAMBDA e : fs[e.path] # "missing")
    ]_vars

\* A call has returned two folders opened at different times, skipped an
\* existing folder inside a project and removed the entry of a deleted folder.
C18_Witness ==
    /\ ret.op = "getRecentFolders"
    /\ Len(ret.folders) >= 2
    /\ ret.folders[1].lastOpened > ret.folders[2].lastOpened
    /\ HasEntry(history, InsideFolder)
    /\ \A i \in DOMAIN ret.folders : ret.folders[i].path # InsideFolder
    /\ fs[PlainFolder] = "missing"
    /\ Len(opens[PlainFolder]) > 0
    /\ ~HasEntry(history, PlainFolder)

---------------------------------------------------------------------------
(* initializeTimestamp and initializeProjectTimestamps, step by step *)

\* concurrency: the size of a batch of initializeProjectTimestamps
Concurrency == 5

\* What getLastCommitDate resolves to: a commit date, or undefined
LastCommitDates == {Undefined, 3 * DayMs}

\* initializeTimestamp: the history it leaves
InitializeTimestampHistory(h, folderPath, timestamp) ==
    IF HasEntry(h, folderPath)
    THEN h
    ELSE Append(h, [path |-> folderPath, lastOpened |-> timestamp, openCount |-> 0,
                    firstOpened |-> timestamp])

\* projects.slice(i, i + concurrency), as the set of their paths
BatchAt(toInit, i) ==
    {toInit[k].path : k \in {k \in DOMAIN toInit : k >= i /\ k < i + Concurrency}}

\* initializeProjectTimestamps up to its first await: the projects without an
\* entry are picked; without any the call returns 0 at once
StartInitializeProjectTimestamps ==
    /\ ~timestamps.running
    /\ calls < MaxCalls
    /\ calls' = calls + 1
    /\ LET projectsToInit == SelectSeq(projects, LAMBDA p : ~HasEntry(history, p.path))
       IN  IF Len(projectsToInit) = 0
           THEN /\ timestamps' = NoRun
                /\ ret' = [op |-> "initializeProjectTimestamps", count |-> 0]
           ELSE /\ timestamps' = [running |-> TRUE, toInit |-> projectsToInit, next |-> 1,
                                  batch |-> BatchAt(projectsToInit, 1), initialized |-> 0,
                                  created |-> {}]
                /\ ret' = NoCall
    /\ UNCHANGED <<tags, metadata, filterTagIds, groupingDepth, rootFolder, view>>
    /\ UNCHANGED <<now, fs, workspace, history, savedProjects, excludedPaths, ignoredPaths,
                   postponed, shownThisSession, notifications, projects, recentFolders,
                   opens, shownCount, shownSinceReset>>

\* The callback of one project counting also the calls that returned false
InitializeTimestampStep_countAll(p, commitDate) ==
    /\ timestamps.running
    /\ p \in timestamps.batch
    /\ LET timestamp == IF commitDate = Undefined THEN 0 ELSE commitDate
           created == ~HasEntry(history, p)
       IN  /\ history' = InitializeTimestampHistory(history, p, timestamp)
           /\ timestamps' = [timestamps EXCEPT
                  !.batch = @ \ {p},
                  !.initialized = @ + 1,
                  !.created = IF Len(history') > Len(history) THEN @ \cup {p} ELSE @]
           /\ ret' = [op |-> "initializeTimestamp", path |-> p, timestamp |-> timestamp,
                      result |-> created]
    /\ UNCHANGED <<tags, metadata, filterTagIds, groupingDepth, rootFolder, view>>
    /\ UNCHANGED <<now, fs, workspace, savedProjects, excludedPaths, ignoredPaths,
                   postponed, shownThisSession, notifications, projects, recentFolders,
                   opens, shownCount, shownSinceReset, calls>>

\* The callback of one project of the batch, after getLastCommitDate resolved:
\* initializeTimestamp, and initialized++ when it returned true
InitializeTimestampStep(p, commitDate) ==
    /\ timestamps.running
    /\ p \in timestamps.batch
    /\ LET timestamp == IF commitDate = Undefined THEN 0 ELSE commitDate
           created == ~HasEntry(history, p)
       IN  /\ history' = InitializeTimestampHistory(history, p, timestamp)
           /\ timestamps' = [timestamps EXCEPT
                  !.batch = @ \ {p},
                  !.initialized = IF created THEN @ + 1 ELSE @,
                  !.created = IF Len(history') > Len(history) THEN @ \cup {p} ELSE @]
           /\ ret' = [op |-> "initializeTimestamp", path |-> p, timestamp |-> timestamp,
                      result |-> created]
    /\ UNCHANGED <<tags, metadata, filterTagIds, groupingDepth, rootFolder, view>>
    /\ UNCHANGED <<now, fs, workspace, savedProjects, excludedPaths, ignoredPaths,
                   postponed, shownThisSession, notifications, projects, recentFolders,
                   opens, shownCount, shownSinceReset, calls>>

\* Promise.all of a batch resolved: the next batch, or the return
FinishBatch ==
    /\ timestamps.running
    /\ timestamps.batch = {}
    /\ IF timestamps.next + Concurrency <= Len(timestamps.toInit)
       THEN /\ timestamps' = [timestamps EXCEPT
                   !.next = @ + Concurrency,
                   !.batch = BatchAt(timestamps.toInit, timestamps.next + Concurrency)]
            /\ ret' = NoCall
       ELSE /\ timestamps' = [timestamps EXCEPT !.running = FALSE]
            /\ ret' = [op |-> "initializeProjectTimestamps",
                       count |-> timestamps.initialized]
    /\ UNCHANGED <<tags, metadata, filterTagIds, groupingDepth, rootFolder, view>>
    /\ UNCHANGED <<now, fs, workspace, history, savedProjects, excludedPaths, ignoredPaths,
                   postponed, shownThisSession, notifications, projects, recentFolders,
                   opens, shownCount, shownSinceReset, calls>>

\* The project list is loaded; no timestamp is initialized yet
InitTimestamps ==
    /\ now = POSTPONE_DURATION_DAYS * DayMs
    /\ fs \in [Paths -> {"dir", "repo"}]
    /\ workspace = NoPath
    /\ history = <<>>
    /\ savedProjects = <<>>
    /\ excludedPaths = <<>>
    /\ ignoredPaths = <<>>
    /\ postponed = <<>>
    /\ shownThisSession = {}
    /\ notifications = [p \in Paths |-> 0]
    /\ NoTags
    /\ projects = LoadedProjects(<<>>, <<>>)
    /\ recentFolders = <<>>
    /\ ret = NoCall
    /\ opens = [p \in Paths |-> <<>>]
    /\ shownCount = [p \in Paths |-> 0]
    /\ shownSinceReset = [p \in Paths |-> 0]
    /\ calls = 0

NextTimestamps ==
    \/ Tick
    \/ \E p \in Paths : RecordOpen(p)
    \/ StartInitializeProjectTimestamps
    \/ \E p \in Paths, commitDate \in LastCommitDates : InitializeTimestampStep(p, commitDate)
    \/ FinishBatch

SpecTimestamps == InitTimestamps /\ [][NextTimestamps]_vars

---------------------------------------------------------------------------
(* Claims about initializeTimestamp, checked under SpecTimestamps *)

\* C17: initializeTimestamp(path, ts) returns false and leaves the history
\* unchanged when the path has an entry; otherwise it creates the entry with
\* lastOpened = firstOpened = ts and openCount 0 and returns true. This holds
\* also when recordOpen for the path ran after initializeProjectTimestamps
\* started, and initializeProjectTimestamps returns the number of entries it
\* created.
C17_InitializeTimestamp ==
    [][/\ ret'.op = "initializeTimestamp" =>
            IF \E i \in DOMAIN history : history[i].path = ret'.path
            THEN /\ ret'.result = FALSE
                 /\ history' = history
            ELSE /\ ret'.result = TRUE
                 /\ history' = Append(history,
                        [path |-> ret'.path, lastOpened |-> ret'.timestamp,
                         openCount |-> 0, firstOpened |-> ret'.timestamp])
       /\ ret'.op = "initializeProjectTimestamps" =>
            ret'.count = Cardinality(timestamps'.created)
    ]_vars

\* initializeProjectTimestamps has returned 1 for two projects: recordOpen for
\* the other one ran between its start and that project's initializeTimestamp.
C17_Witness ==
    /\ ret.op = "initializeProjectTimestamps"
    /\ Len(timestamps.toInit) = 2
    /\ ret.count = 1
    /\ \E p \in Paths :
          /\ p \notin timestamps.created
          /\ Len(opens[p]) > 0
          /\ EntryOf(history, p).openCount = 1

---------------------------------------------------------------------------
(* The tag commands: createTag, editProjectTags, renameTag, deleteTag *)

\* The tags of the edit-tags quick pick: by priority, then by name
SortedTags ==
    LET level[i \in 0..(MaxPriority + 1)] ==
            IF i > MaxPriority THEN <<>>
            ELSE [k \in DOMAIN GetTagsByPriority(i) |-> GetTagsByPriority(i)[k].name]
                    \o level[i + 1]
    IN  level[0]

\* projectory.createTag: the input box rejects the name of an existing tag
CreateTagCommand(name, priority) ==
    /\ tags[name] = Undefined
    /\ tags' = [tags EXCEPT ![name] = priority]
    /\ ret' = [op |-> "createTag"]
    /\ UNCHANGED <<metadata, filterTagIds, groupingDepth, rootFolder, timestamps, view>>
    /\ UNCHANGED <<now, fs, workspace, history, savedProjects, excludedPaths, ignoredPaths,
                   postponed, shownThisSession, notifications, projects, recentFolders,
                   opens, shownCount, shownSinceReset, calls>>

\* projectory.editProjectTags: setTags with the tags picked among the defined ones
EditProjectTags(p, picked) ==
    /\ \A n \in picked : tags[n] # Undefined
    /\ metadata' = [metadata EXCEPT ![p] = SelectSeq(SortedTags, LAMBDA n : n \in picked)]
    /\ ret' = [op |-> "editProjectTags"]
    /\ UNCHANGED <<tags, filterTagIds, groupingDepth, rootFolder, timestamps, view>>
    /\ UNCHANGED <<now, fs, workspace, history, savedProjects, excludedPaths, ignoredPaths,
                   postponed, shownThisSession, notifications, projects, recentFolders,
                   opens, shownCount, shownSinceReset, calls>>

\* TagService.renameTag: the tags config it leaves
RenameTagConfig(oldName, newName) ==
    IF tags[oldName] = Undefined
    THEN tags
    ELSE [n \in TagNames |->
            IF n = newName THEN tags[oldName]
            ELSE IF n = oldName THEN Undefined
            ELSE tags[n]]

\* TagService.renameTag: the name it returns
RenameTagReturn(oldName, newName) ==
    IF tags[oldName] = Undefined THEN oldName ELSE newName

\* projectory.renameTag without the renameTagInAll call
RenameTagCommand_registryOnly(oldName, newName, commit) ==
    /\ tags[oldName] # Undefined
    /\ newName # oldName
    /\ tags[newName] = Undefined
    /\ tags' = RenameTagConfig(oldName, newName)
    /\ UNCHANGED metadata
    /\ RefreshProjects(savedProjects, excludedPaths, commit)
    /\ ret' = [op |-> "renameTag", oldName |-> oldName, newName |-> newName]
    /\ UNCHANGED <<filterTagIds, groupingDepth, rootFolder, timestamps, view>>
    /\ UNCHANGED <<now, fs, workspace, savedProjects, excludedPaths, ignoredPaths,
                   postponed, shownThisSession, notifications, opens, shownCount,
                   shownSinceReset, calls>>

\* projectory.renameTag on the tree item of a defined tag: the input box rejects
\* the name of another defined tag; renameTag, renameTagInAll, refresh
RenameTagCommand(oldName, newName, commit) ==
    /\ tags[oldName] # Undefined
    /\ newName # oldName
    /\ tags[newName] = Undefined
    /\ tags' = RenameTagConfig(oldName, newName)
    /\ metadata' = RenameTagInAllMetadata(oldName, RenameTagReturn(oldName, newName))
    /\ RefreshProjects(savedProjects, excludedPaths, commit)
    /\ ret' = [op |-> "renameTag", oldName |-> oldName, newName |-> newName]
    /\ UNCHANGED <<filterTagIds, groupingDepth, rootFolder, timestamps, view>>
    /\ UNCHANGED <<now, fs, workspace, savedProjects, excludedPaths, ignoredPaths,
                   postponed, shownThisSession, notifications, opens, shownCount,
                   shownSinceReset, calls>>

\* The answers to the modal 'Delete tag "..."?'
DeleteAnswers == {"Delete", "dismissed"}

\* projectory.deleteTag on the tree item of a defined tag: once confirmed,
\* clearTagFromAll, deleteTag, refresh
DeleteTagCommand(name, confirm, commit) ==
    /\ tags[name] # Undefined
    /\ IF confirm = "Delete"
       THEN /\ metadata' = ClearTagFromAllMetadata(name)
            /\ tags' = [tags EXCEPT ![name] = Undefined]
            /\ RefreshProjects(savedProjects, excludedPaths, commit)
       ELSE UNCHANGED <<metadata, tags, projects, recentFolders, history>>
    /\ ret' = [op |-> "deleteTag", name |-> name, confirm |-> confirm]
    /\ UNCHANGED <<filterTagIds, groupingDepth, rootFolder, timestamps, view>>
    /\ UNCHANGED <<now, fs, workspace, savedProjects, excludedPaths, ignoredPaths,
                   postponed, shownThisSession, notifications, opens, shownCount,
                   shownSinceReset, calls>>

\* The user removes a tag from the 'projectory.tags' setting in settings.json
RemoveTagSetting(name) ==
    /\ tags[name] # Undefined
    /\ calls < MaxCalls
    /\ calls' = calls + 1
    /\ tags' = [tags EXCEPT ![name] = Undefined]
    /\ ret' = NoCall
    /\ UNCHANGED <<metadata, filterTagIds, groupingDepth, rootFolder, timestamps, view>>
    /\ UNCHANGED <<now, fs, workspace, history, savedProjects, excludedPaths, ignoredPaths,
                   postponed, shownThisSession, notifications, projects, recentFolders,
                   opens, shownCount, shownSinceReset>>

\* No tag is defined, no project is tagged
InitTags ==
    /\ now = 0
    /\ fs = [p \in Paths |-> "repo"]
    /\ workspace = NoPath
    /\ EmptyState
    /\ NoTags

NextTags ==
    \/ \E name \in TagNames : CreateTagCommand(name, 0)
    \/ \E p \in Paths, picked \in SUBSET TagNames : EditProjectTags(p, picked)
    \/ \E oldName \in TagNames, newName \in TagNames, commit \in CommitDates :
          RenameTagCommand(oldName, newName, commit)
    \/ \E name \in TagNames, confirm \in DeleteAnswers, commit \in CommitDates :
          DeleteTagCommand(name, confirm, commit)
    \/ \E name \in TagNames : RemoveTagSetting(name)

SpecTags == InitTags /\ [][NextTags]_vars

---------------------------------------------------------------------------
(* Claims about the deleteTag command, checked under SpecTags *)

\* C20: once the deleteTag command is confirmed, the tag is absent from the
\* registry and from every project's tag list, every project keeps its other
\* tags in their original order, and a project whose only tag was the deleted
\* one has no metadata entry (it counts as untagged).
C20_DeleteTag ==
    [][(ret'.op = "deleteTag" /\ ret'.confirm = "Delete") =>
          /\ tags'[ret'.name] = Undefined
          /\ \A p \in Paths :
                /\ \A i \in DOMAIN metadata'[p] : metadata'[p][i] # ret'.name
                /\ metadata'[p] = SelectSeq(metadata[p], LAMBDA t : t # ret'.name)
    ]_vars

---------------------------------------------------------------------------
(* WorkspaceHistoryService.getFrequentFolders *)

\* The thresholds getFrequentFolders is called with
MinOpenCounts == 1..3

GetFrequentFoldersCall(minOpenCount) ==
    /\ UNCHANGED treeVars
    /\ ret' = [op |-> "getFrequentFolders", minOpenCount |-> minOpenCount,
               result |-> GetFrequentFolders(minOpenCount)]
    /\ UNCHANGED <<now, fs, workspace, history, savedProjects, excludedPaths, ignoredPaths,
                   postponed, shownThisSession, notifications, projects, recentFolders,
                   opens, shownCount, shownSinceReset, calls>>

InitFrequent ==
    /\ now = 0
    /\ fs = [p \in Paths |-> "dir"]
    /\ workspace = NoPath
    /\ EmptyState
    /\ NoTags

NextFrequent ==
    \/ Tick
    \/ \E p \in Paths : RecordOpen(p)
    \/ \E minOpenCount \in MinOpenCounts : GetFrequentFoldersCall(minOpenCount)

SpecFrequent == InitFrequent /\ [][NextFrequent]_vars

---------------------------------------------------------------------------
(* Claims about getFrequentFolders, checked under SpecFrequent *)

---------------------------------------------------------------------------
(* TagService.renameTag and the renameTag command *)

\* TagService.renameTag called on its own, with any pair of names; such calls
\* and edits of the setting are counted together
RenameTag(oldName, newName) ==
    /\ calls < MaxCalls
    /\ calls' = calls + 1
    /\ tags' = RenameTagConfig(oldName, newName)
    /\ ret' = [op |-> "TagService.renameTag", oldName |-> oldName, newName |-> newName,
               returned |-> RenameTagReturn(oldName, newName)]
    /\ UNCHANGED <<metadata, filterTagIds, groupingDepth, rootFolder, timestamps, view>>
    /\ UNCHANGED <<now, fs, workspace, history, savedProjects, excludedPaths, ignoredPaths,
                   postponed, shownThisSession, notifications, projects, recentFolders,
                   opens, shownCount, shownSinceReset>>

\* Two tags of different priorities are defined, no project is tagged
InitRename ==
    /\ now = 0
    /\ fs = [p \in Paths |-> "repo"]
    /\ workspace = NoPath
    /\ EmptyState
    /\ tags = ResetTags
    /\ metadata = [p \in Paths |-> <<>>]
    /\ filterTagIds = <<>>
    /\ groupingDepth = 1
    /\ rootFolder = Root
    /\ timestamps = NoRun
    /\ view = [parent |-> [kind |-> "none"], items |-> <<>>]

NextRename ==
    \/ \E p \in Paths, picked \in SUBSET TagNames : EditProjectTags(p, picked)
    \/ \E oldName \in TagNames, newName \in TagNames, commit \in CommitDates :
          RenameTagCommand(oldName, newName, commit)
    \/ \E oldName \in TagNames, newName \in TagNames : RenameTag(oldName, newName)
    \/ \E name \in TagNames : RemoveTagSetting(name)

SpecRename == InitRename /\ [][NextRename]_vars

---------------------------------------------------------------------------
(* Claims about renaming a tag, checked under SpecRename *)

\* The registry part of C21: after the renameTag command the new name has the
\* old tag's priority, the old name is undefined and every other tag keeps its
\* priority; TagService.renameTag for an unknown old name changes nothing and
\* returns the old name.
RenameKeepsRegistry ==
    /\ ret'.op = "renameTag" =>
          /\ tags'[ret'.newName] = tags[ret'.oldName]
          /\ tags'[ret'.oldName] = Undefined
          /\ \A n \in TagNames \ {ret'.oldName, ret'.newName} : tags'[n] = tags[n]
    /\ (ret'.op = "TagService.renameTag" /\ tags[ret'.oldName] = Undefined) =>
          /\ tags' = tags
          /\ metadata' = metadata
          /\ ret'.returned = ret'.oldName

\* C21 as stated: the registry part, and after the renameTag command exactly
\* the projects that carried the old name carry the new name.
C21_RenameAsStated ==
    [][/\ RenameKeepsRegistry
       /\ ret'.op = "renameTag" =>
             \A p \in Paths :
                 (\E i \in DOMAIN metadata'[p] : metadata'[p][i] = ret'.newName)
                     <=> (\E i \in DOMAIN metadata[p] : metadata[p][i] = ret'.oldName)
    ]_vars

\* C21: the registry part, and after the renameTag command the projects that
\* carry the new name are exactly those that carried the old name or already
\* held the new name in their stored tag list.
C21_RenameKeepsAssignments ==
    [][/\ RenameKeepsRegistry
       /\ ret'.op = "renameTag" =>
             \A p \in Paths :
                 (\E i \in DOMAIN metadata'[p] : metadata'[p][i] = ret'.newName)
                     <=> \/ \E i \in DOMAIN metadata[p] : metadata[p][i] = ret'.oldName
                         \/ \E i \in DOMAIN metadata[p] : metadata[p][i] = ret'.newName
    ]_vars

\* The renameTag command has renamed a tag of priority 1 that one project
\* carried and the other did not, next to another defined tag.
C21_Witness ==
    /\ ret.op = "renameTag"
    /\ tags[ret.newName] = 1
    /\ \E n \in TagNames \ {ret.newName} : tags[n] = 0
    /\ \E p, q \in Paths :
          /\ \E i \in DOMAIN metadata[p] : metadata[p][i] = ret.newName
          /\ ~\E i \in DOMAIN metadata[q] : metadata[q][i] = ret.newName

=============================================================================
